---- MODULE Spec2Model ----
(***************************************************************************)
(* Model of the agent orchestration engine: AgentCore / AgentSession       *)
(* (worker/agents/core/AgentCore.ts), the tool-calling operation           *)
(* (AgentOperationWithTools, operations/common.ts) and the behaviour       *)
(* lifecycle (BaseCodingBehavior, behaviors/base.ts).                      *)
(*                                                                         *)
(* JavaScript runs these handlers on one event loop: a step of the model   *)
(* is the code between two awaits of one handler.  A call to an external   *)
(* collaborator (store, emitter) takes effect when it is called, and the   *)
(* store and the emitter resolve; analysisManager.logToolExecution may     *)
(* reject.                                                                 *)
(***************************************************************************)
EXTENDS Integers, Sequences, FiniteSets, TLC

\* ------------------------------------------------------------------------
\* Bounds of the model
\* ------------------------------------------------------------------------
\* One session id is modelled: the live map, the store and the emitter are
\* keyed by session id, and a session touches no other key than its own.
\* recoverSession calls for that id.
MaxRecoveries == 1
\* processSession runs in flight at the same time.
MaxInFlight == 2
\* stream chunks buffered by AgentSession.stream at the same time.
MaxStream == 1
\* handleUserMessage calls.
MaxMessages == 1
\* terminateSession calls.
MaxTerminations == 2

\* AgentSession objects of the id: that of initializeSession, then one per
\* recoverSession.
Runs == 1..(MaxRecoveries + 1)

\* ------------------------------------------------------------------------
\* Enumerations
\* ------------------------------------------------------------------------
\* enum AgentPhase, in declaration order (Object.values order).
AgentPhase == <<"analysis", "setup", "implementation", "review", "deployment">>

\* enum GenerationStatus.
GenerationStatus ==
    {"initializing", "processing", "waiting", "completed", "failed", "terminated"}

TerminalStatus == {"completed", "failed", "terminated"}

\* The store has no context for the id.
NoContext == [status |-> "none", phase |-> "none", messages |-> 0]

\* ------------------------------------------------------------------------
\* Sequence helpers
\* ------------------------------------------------------------------------
IsPrefix(s, t) == Len(s) <= Len(t) /\ \A i \in 1..Len(s) : s[i] = t[i]

IndexOf(seq, x) == CHOOSE i \in 1..Len(seq) : seq[i] = x

RECURSIVE SumTo(_, _)
SumTo(f, n) == IF n = 0 THEN 0 ELSE f[n] + SumTo(f, n - 1)

Min(a, b) == IF a < b THEN a ELSE b

\* ------------------------------------------------------------------------
\* State
\* ------------------------------------------------------------------------
VARIABLES
    sessions,        \* AgentSession objects, by creation index
    nRuns,           \* number of AgentSession objects created so far
    activeSessions,  \* AgentCore.activeSessions entry of the id: object index, 0 = absent
    store,           \* stateManager: the persisted context of the id
    startedCount,    \* 'phase started' events emitted for the id
    lastStarted,     \* index of the phase of the last 'started' event of the id
    terminatedCount, \* 'terminated' events emitted for the id
    terminateCalls,  \* terminateSession calls made for the id
    nullRecoveries,  \* recoverSession calls for the id that returned null
    messageCount,    \* 'message' events emitted for the id
    msg,             \* the handleUserMessage call in flight
    nMessages        \* handleUserMessage calls made

coreVars == <<sessions, nRuns, activeSessions, store, startedCount,
              lastStarted, terminatedCount, terminateCalls, nullRecoveries,
              messageCount, msg, nMessages>>

\* One tool-calling operation (AgentOperationWithTools.runInferenceWithTools).
VARIABLES
    lpc,             \* position of runInferenceWithTools
    iteration,       \* its local `iteration`
    currentMessages, \* its local `currentMessages`
    streamState,     \* the locals of the streamInference call in flight
    response,        \* the StreamResponse of the last streamInference
    toolIdx,         \* executeToolCalls: index of the call being executed
    results,         \* executeToolCalls: `results`
    renders,         \* callbacks.toolRenderer calls of the current batch
    inferCalls,      \* streamInference calls made
    execCount,       \* tool.execute calls made
    overBudget,      \* Date.now() - startTime > MAX_OPERATION_TIME_MS
    onToolComplete,  \* callbacks.onToolComplete: "absent", "resolves", "rejects"
    outcome,         \* how the operation ended
    returned         \* the string it returned

loopVars == <<lpc, iteration, currentMessages, streamState, response, toolIdx,
              results, renders, inferCalls, execCount, overBudget,
              onToolComplete, outcome, returned>>

\* One AgentCore.executeToolCall call.
VARIABLES
    toolCall         \* its position, its toolCall.name, the error caught, its result

toolVars == <<toolCall>>

\* One withRetry call.
VARIABLES
    retry            \* its options, its locals (attempt, lastError), the
                     \* outcomes of the invocations of the operation so far

\* One createStreamIterator generator.
VARIABLES
    sse              \* the text received, its buffer, the events yielded

\* One BaseCodingBehavior instance.
VARIABLES
    behavior         \* generationPromise, the build() calls in flight, the
                     \* queue of user inputs, the calls made

\* One POST /api/agent request and the approve and reject requests for its
\* session.
VARIABLES
    route            \* the entry of the sessions map, the three timers, the
                     \* handler's locals, the calls of runBuild

utilVars == <<retry, sse, behavior, route>>

nonCoreVars == <<loopVars, toolVars, utilVars>>
nonLoopVars == <<coreVars, toolVars, utilVars>>
nonToolVars == <<coreVars, loopVars, utilVars>>
nonUtilVars == <<coreVars, loopVars, toolVars>>

vars == <<coreVars, loopVars, toolVars, utilVars>>

\* An AgentSession that does not exist yet.
Unborn ==
    [pc |-> "unborn", status |-> "none", phase |-> "none",
     messages |-> 0, isTerminated |-> FALSE, cur |-> 0, events |-> <<>>,
     timers |-> 0, refined |-> 0,
     thrown |-> FALSE]

\* No handleUserMessage call is in flight.  Of a call in flight: its
\* position, the AgentSession it found, and context.phase when it was made.
NoMessage == [pc |-> "idle", run |-> 0, phase |-> "none"]

\* Events of the emitter.
PhaseEvent(p, st) == [type |-> "phase", phase |-> p, status |-> st]
PlainEvent(t) == [type |-> t, phase |-> "none", status |-> "none"]
ReviewEvent(st) == [type |-> "review", phase |-> "none", status |-> st]

Emit(s, e) == [s EXCEPT !.events = Append(@, e)]

\* stateManager.updateSession(context): the whole context is written.
UpdateSession(st, s) ==
    [status |-> s.status, phase |-> s.phase, messages |-> s.messages]

\* stateManager.updateSessionStatus(id, status, extra).
UpdateSessionStatus(st, status) ==
    [st EXCEPT !.status = status]

\* ------------------------------------------------------------------------
\* AgentCore.processSession / runPhase
\* ------------------------------------------------------------------------
ProcessSessionOrderSwapped ==
    <<"analysis", "implementation", "setup", "review", "deployment">>

\* The order in which processSession calls runPhase.
ProcessSessionOrder ==
    <<"analysis", "setup", "implementation", "review", "deployment">>

\* runPhase up to its first await: context.phase, context.status.
RunPhaseBegin(s, k) ==
    [s EXCEPT !.cur = k, !.phase = ProcessSessionOrder[k],
              !.status = "processing", !.pc = "emitStart"]

\* ------------------------------------------------------------------------
\* AgentOperationWithTools (operations/common.ts)
\* ------------------------------------------------------------------------
MAX_TOOL_ITERATIONS == 50

\* tool calls in one tool_call chunk.
MaxBatch == 2
\* chunks in one stream.
MaxChunks == 2

\* Tool names the model can ask for; "ghost" is not among the available tools.
ToolNames == {"write", "boom", "hang", "ghost"}

\* What tool.execute of an available tool does.
ToolBehaviour == [write |-> "returns", boom |-> "throws", hang |-> "hangs"]

AvailableTools == DOMAIN ToolBehaviour

\* function.arguments of a raw tool call: a JSON text, or a text that is
\* not JSON.
ArgumentTexts == {"{}", "{"}

\* JSON.parse / JSON.stringify on the values of the model.
JsonParse(text) == [parsed |-> text]
JsonStringify(value) == [json |-> value]

\* Messages of the conversation.
InputMessages ==
    << [role |-> "system", content |-> <<"prompt">>, tool_calls |-> <<>>, tool_call_id |-> 0],
       [role |-> "user", content |-> <<"query">>, tool_calls |-> <<>>, tool_call_id |-> 0] >>

\* The id the provider gives to the i-th call of the batch of iteration k.
CallId(k, i) == k * MaxBatch + i

\* The tool_calls arrays a tool_call chunk of iteration k can carry.
RawBatches(k) ==
    UNION { { [i \in 1..n |-> [id |-> CallId(k, i), name |-> f[i][1], arguments |-> f[i][2]]] :
                f \in [1..n -> ToolNames \X ArgumentTexts] } : n \in 0..MaxBatch }

\* StreamChunk.
ContentChunk(c) == [type |-> "content", content |-> c, tool_calls |-> <<>>]
CompleteChunk == [type |-> "complete", content |-> "", tool_calls |-> <<>>]
ToolCallChunk(b) == [type |-> "tool_call", content |-> "", tool_calls |-> b]

Chunks(k) ==
    {ContentChunk("a"), CompleteChunk} \cup {ToolCallChunk(b) : b \in RawBatches(k)}

\* The previous tool calls, asked for again in iteration k.
RepeatBatch(calls, k) ==
    [i \in 1..Len(calls) |->
        [id |-> CallId(k, i), name |-> calls[i].name, arguments |-> "{}"]]

\* The provider chooses the stream of the first inference call freely; in
\* every later call it asks again for the tool calls of its previous response
\* (under fresh ids), completes or fails, in a stream of one chunk.
Varied(k) == k = 0

\* The chunks the provider can stream next in iteration k.
NextChunks(k, last) ==
    IF Varied(k)
    THEN Chunks(k)
    ELSE {ToolCallChunk(RepeatBatch(last, k)), CompleteChunk}

\* parseToolCalls: JSON.parse throws on a text that is not JSON.
ParseThrows(raw) == \E i \in 1..Len(raw) : raw[i].arguments \notin {"{}"}

ParseToolCalls(raw) ==
    [i \in 1..Len(raw) |->
        [id |-> raw[i].id, name |-> raw[i].name,
         parameters |-> JsonParse(raw[i].arguments)]]

\* The locals of streamInference: accumulatedContent, toolCalls, isComplete;
\* n counts the chunks read, failed says that the try block threw.
NoChunksRead ==
    [content |-> <<>>, toolCalls |-> <<>>, isComplete |-> FALSE, n |-> 0,
     failed |-> FALSE]

\* One round of the for-await loop of streamInference.
ReadChunk(acc, chunk) ==
    IF chunk.type = "content"
    THEN [acc EXCEPT !.content = Append(@, chunk.content), !.n = @ + 1]
    ELSE IF chunk.type = "tool_call"
    THEN IF ParseThrows(chunk.tool_calls)
         THEN [acc EXCEPT !.failed = TRUE, !.n = @ + 1]
         ELSE [acc EXCEPT !.toolCalls = ParseToolCalls(chunk.tool_calls), !.n = @ + 1]
    ELSE [acc EXCEPT !.isComplete = TRUE, !.n = @ + 1]

NoResponse == [type |-> "none", content |-> <<>>, toolCalls |-> <<>>]

StreamInferenceKeepsPartial(acc) ==
    IF Len(acc.toolCalls) > 0
    THEN [type |-> "tool_calls", content |-> acc.content, toolCalls |-> acc.toolCalls]
    ELSE [type |-> "complete", content |-> acc.content, toolCalls |-> <<>>]

StreamInferenceSignalAsTools(acc) ==
    IF acc.failed
    THEN [type |-> "error", content |-> <<>>, toolCalls |-> <<>>]
    ELSE IF Len(acc.toolCalls) > 0 \/ acc.isComplete
    THEN [type |-> "tool_calls", content |-> acc.content, toolCalls |-> acc.toolCalls]
    ELSE [type |-> "complete", content |-> acc.content, toolCalls |-> <<>>]

\* streamInference after the stream: the StreamResponse it returns.
StreamInference(acc) ==
    IF acc.failed
    THEN [type |-> "error", content |-> <<>>, toolCalls |-> <<>>]
    ELSE IF Len(acc.toolCalls) > 0
    THEN [type |-> "tool_calls", content |-> acc.content, toolCalls |-> acc.toolCalls]
    ELSE IF acc.isComplete \/ "signal" \in {acc.content[i] : i \in 1..Len(acc.content)}
    THEN [type |-> "complete", content |-> acc.content, toolCalls |-> <<>>]
    ELSE [type |-> "complete", content |-> acc.content, toolCalls |-> <<>>]

LoopGuardInclusive(i) == i <= MAX_TOOL_ITERATIONS

\* The condition of the while loop of runInferenceWithTools.
LoopGuard(i) == i < MAX_TOOL_ITERATIONS

\* A timeout check that never fires.
BudgetExceededIgnored(exceeded) == FALSE

\* The timeout check at the head of the loop: Date.now() - startTime >
\* MAX_OPERATION_TIME_MS, the comparison the flag overBudget stands for.
BudgetExceeded(exceeded) == exceeded

\* Results pushed by executeToolCalls.
ErrorResult(m) == [error |-> m, value |-> "none"]
ValueResult(name) == [error |-> "none", value |-> name]

ToolNotFoundDropped(rs, call) == rs

\* executeToolCalls, a call whose tool is not among the available tools.
ToolNotFound(rs, call) == Append(rs, ErrorResult("Tool not found"))

ToolThrewDropsEarlier(rs) == <<ErrorResult("thrown")>>

\* executeToolCalls, the catch block: the error result of the call.
ToolThrew(rs) == Append(rs, ErrorResult("thrown"))

\* executeToolCalls from call i on, up to the next tool.execute: calls of
\* unavailable tools get their error result at once.
RECURSIVE SkipMissing(_, _, _)
SkipMissing(calls, i, rs) ==
    IF i > Len(calls) \/ calls[i].name \in AvailableTools
    THEN [idx |-> i, results |-> rs]
    ELSE SkipMissing(calls, i + 1, ToolNotFound(rs, calls[i]))

Render(name, status) == [name |-> name, status |-> status]

\* The tool messages runInferenceWithTools builds from toolResults.
ToolResultMessages(calls, rs) ==
    [i \in 1..Len(rs) |->
        [role |-> "tool", content |-> JsonStringify(rs[i]), tool_calls |-> <<>>,
         tool_call_id |-> calls[i].id]]

\* The assistant message that carries the tool calls.
AssistantMessage(resp) ==
    [role |-> "assistant", content |-> resp.content,
     tool_calls |-> [i \in 1..Len(resp.toolCalls) |->
                        [id |-> resp.toolCalls[i].id, name |-> resp.toolCalls[i].name,
                         arguments |-> JsonStringify(resp.toolCalls[i].parameters)]],
     tool_call_id |-> 0]

\* ToolResult.
ToolSuccess == [success |-> TRUE, error |-> "none"]
ToolFailure(e) == [success |-> FALSE, error |-> e]
NoResult == [success |-> FALSE, error |-> "no result"]

NoToolCall == [pc |-> "idle", name |-> "none", caught |-> "none", result |-> NoResult]

LoopInit ==
    /\ lpc = "start"
    /\ iteration = 0
    /\ currentMessages = <<>>
    /\ streamState = NoChunksRead
    /\ response = NoResponse
    /\ toolIdx = 0
    /\ results = <<>>
    /\ renders = <<>>
    /\ inferCalls = 0
    /\ execCount = 0
    /\ overBudget = FALSE
    /\ onToolComplete = "absent"
    /\ outcome = "running"
    /\ returned = <<>>

\* executeCore calls runInferenceWithTools with the caller's messages and
\* callbacks; the locals of the loop are initialised.
StartOperation ==
    /\ lpc = "start"
    /\ \E cb \in {"absent", "resolves", "rejects"} : onToolComplete' = cb
    /\ currentMessages' = InputMessages
    /\ iteration' = 0
    /\ lpc' = "top"
    /\ UNCHANGED <<nonLoopVars, streamState, response, toolIdx, results,
                   renders, inferCalls, execCount, overBudget, outcome, returned>>

\* Head of the while loop: the guard, the timeout check, the call of
\* streamInference.
LoopTop ==
    /\ lpc = "top"
    /\ IF ~LoopGuard(iteration)
       THEN /\ lpc' = "done"
            /\ outcome' = "maxIterations"
            /\ UNCHANGED inferCalls
       ELSE IF BudgetExceeded(overBudget)
       THEN /\ lpc' = "done"
            /\ outcome' = "timeout"
            /\ UNCHANGED inferCalls
       ELSE /\ lpc' = "infer"
            /\ inferCalls' = inferCalls + 1
            /\ UNCHANGED outcome
    /\ UNCHANGED <<nonLoopVars, iteration, currentMessages, streamState, response,
                   toolIdx, results, renders, execCount, overBudget,
                   onToolComplete, returned>>

\* inferStream settles: the stream is open, or the call is rejected.
InferStream ==
    /\ lpc = "infer"
    /\ \E ok \in BOOLEAN :
          IF ok
          THEN /\ lpc' = "reading"
               /\ streamState' = NoChunksRead
          ELSE /\ lpc' = "classify"
               /\ streamState' = [NoChunksRead EXCEPT !.failed = TRUE]
    /\ UNCHANGED <<nonLoopVars, iteration, currentMessages, response, toolIdx,
                   results, renders, inferCalls, execCount, overBudget,
                   onToolComplete, outcome, returned>>

\* The stream delivers a chunk.
StreamChunkRead ==
    /\ lpc = "reading"
    /\ streamState.n < (IF Varied(iteration) THEN MaxChunks ELSE 1)
    /\ \E chunk \in NextChunks(iteration, response.toolCalls) :
          streamState' = ReadChunk(streamState, chunk)
    /\ lpc' = IF streamState'.failed THEN "classify" ELSE "reading"
    /\ UNCHANGED <<nonLoopVars, iteration, currentMessages, response, toolIdx,
                   results, renders, inferCalls, execCount, overBudget,
                   onToolComplete, outcome, returned>>

\* The stream ends, or its iterator throws.
StreamEnd ==
    /\ lpc = "reading"
    /\ Varied(iteration) \/ streamState.n = 1
    /\ \E fails \in (IF Varied(iteration) THEN BOOLEAN ELSE {FALSE}) :
          streamState' = [streamState EXCEPT !.failed = fails]
    /\ lpc' = "classify"
    /\ UNCHANGED <<nonLoopVars, iteration, currentMessages, response, toolIdx,
                   results, renders, inferCalls, execCount, overBudget,
                   onToolComplete, outcome, returned>>

RECURSIVE RunningFrom(_, _)
\* The 'running' renders of the available tools among calls i, i+1, ...
RunningFrom(calls, i) ==
    IF i > Len(calls)
    THEN <<>>
    ELSE (IF calls[i].name \in AvailableTools
          THEN <<Render(calls[i].name, "running")>> ELSE <<>>)
         \o RunningFrom(calls, i + 1)

EnterCallStartsAll(calls, i, rs, rd) ==
    LET sk == SkipMissing(calls, i, rs)
    IN /\ toolIdx' = sk.idx
       /\ results' = sk.results
       /\ IF sk.idx > Len(calls)
          THEN /\ lpc' = "append"
               /\ renders' = rd
               /\ UNCHANGED execCount
          ELSE /\ lpc' = "exec"
               /\ renders' = rd \o RunningFrom(calls, sk.idx)
               /\ execCount' = execCount + 1

\* executeToolCalls reaches call i of the batch: either tool.execute is
\* called (and the renderer shows 'running'), or the batch is finished.
EnterCall(calls, i, rs, rd) ==
    LET sk == SkipMissing(calls, i, rs)
    IN /\ toolIdx' = sk.idx
       /\ results' = sk.results
       /\ IF sk.idx > Len(calls)
          THEN /\ lpc' = "append"
               /\ renders' = rd
               /\ UNCHANGED execCount
          ELSE /\ lpc' = "exec"
               /\ renders' = Append(rd, Render(calls[sk.idx].name, "running"))
               /\ execCount' = execCount + 1

\* streamInference returns; runInferenceWithTools handles the response up
\* to its next await.
HandleResponse ==
    /\ lpc = "classify"
    /\ LET resp == StreamInference(streamState)
       IN /\ response' = resp
          /\ streamState' = IF resp.type = "tool_calls" THEN NoChunksRead ELSE streamState
          /\ IF resp.type = "complete"
             THEN /\ lpc' = "done"
                  /\ outcome' = "returned"
                  /\ returned' = resp.content
                  /\ UNCHANGED <<toolIdx, results, renders, execCount>>
             ELSE IF resp.type = "tool_calls"
             THEN /\ EnterCall(resp.toolCalls, 1, <<>>, <<>>)
                  /\ UNCHANGED <<outcome, returned>>
             ELSE /\ lpc' = "done"
                  /\ outcome' = "inferenceError"
                  /\ UNCHANGED <<returned, toolIdx, results, renders, execCount>>
    /\ UNCHANGED <<nonLoopVars, iteration, currentMessages, inferCalls,
                   overBudget, onToolComplete>>

\* tool.execute of the current call settles.
ToolSettles ==
    /\ lpc = "exec"
    /\ LET call == response.toolCalls[toolIdx]
       IN /\ ToolBehaviour[call.name] # "hangs"
          /\ IF ToolBehaviour[call.name] = "returns"
             THEN IF onToolComplete = "absent"
                  THEN EnterCall(response.toolCalls, toolIdx + 1,
                                 Append(results, ValueResult(call.name)),
                                 Append(renders, Render(call.name, "success")))
                  ELSE /\ lpc' = "notify"
                       /\ renders' = Append(renders, Render(call.name, "success"))
                       /\ UNCHANGED <<toolIdx, results, execCount>>
             ELSE EnterCall(response.toolCalls, toolIdx + 1,
                            ToolThrew(results),
                            Append(renders, Render(call.name, "error")))
    /\ UNCHANGED <<nonLoopVars, iteration, currentMessages, streamState, response,
                   inferCalls, overBudget, onToolComplete, outcome, returned>>

\* callbacks.onToolComplete of the current call settles.
NotifySettles ==
    /\ lpc = "notify"
    /\ LET call == response.toolCalls[toolIdx]
       IN IF onToolComplete = "resolves"
          THEN EnterCall(response.toolCalls, toolIdx + 1,
                         Append(results, ValueResult(call.name)), renders)
          ELSE EnterCall(response.toolCalls, toolIdx + 1,
                         ToolThrew(results),
                         Append(renders, Render(call.name, "error")))
    /\ UNCHANGED <<nonLoopVars, iteration, currentMessages, streamState, response,
                   inferCalls, overBudget, onToolComplete, outcome, returned>>

\* A loop that rebuilds the history from the input and the last batch.
AppendResultsReplaces ==
    /\ lpc = "append"
    /\ currentMessages' = InputMessages \o <<AssistantMessage(response)>>
                            \o ToolResultMessages(response.toolCalls, results)
    /\ iteration' = iteration + 1
    /\ lpc' = "top"
    /\ UNCHANGED <<nonLoopVars, streamState, response, toolIdx, results, renders,
                   inferCalls, execCount, overBudget, onToolComplete, outcome,
                   returned>>

\* executeToolCalls has returned: the messages are added, iteration++.
AppendResults ==
    /\ lpc = "append"
    /\ currentMessages' = currentMessages \o <<AssistantMessage(response)>>
                            \o ToolResultMessages(response.toolCalls, results)
    /\ iteration' = iteration + 1
    /\ lpc' = "top"
    /\ UNCHANGED <<nonLoopVars, streamState, response, toolIdx, results, renders,
                   inferCalls, execCount, overBudget, onToolComplete, outcome,
                   returned>>

\* The time the iteration took has used up the budget.  The clock is read
\* only at the head of the loop, so it is observed when the batch is done.
Tick ==
    /\ lpc = "append"
    /\ ~overBudget
    /\ overBudget' = TRUE
    /\ UNCHANGED <<nonLoopVars, lpc, iteration, currentMessages, streamState,
                   response, toolIdx, results, renders, inferCalls, execCount,
                   onToolComplete, outcome, returned>>

NextLoop ==
    \/ StartOperation
    \/ LoopTop
    \/ InferStream
    \/ StreamChunkRead
    \/ StreamEnd
    \/ HandleResponse
    \/ ToolSettles
    \/ NotifySettles
    \/ AppendResults
    \/ Tick

\* ------------------------------------------------------------------------
\* withRetry (operations/common.ts and inferutils/core.ts)
\* ------------------------------------------------------------------------
\* Largest maxRetries option passed by a caller.
MaxRetriesOption == 4

\* The defaults of the options.
DefaultMaxRetries == 3
DefaultBaseDelay == 1000
DefaultMaxDelay == 30000

\* The two implementations: "common" retries on the messages listed in
\* retryableErrors, "core" retries when shouldRetry(error) says so.
RetryVariants == {"common", "core"}

\* The caller's retryableErrors / shouldRetry option: left out, or one that
\* retries on nothing.
RetryPolicies == {"default", "nothing"}

\* Messages are sequences of words; String.prototype.includes(e) finds the
\* word e in them.
ErrorMessages == {<<"rate_limit">>, <<"http", "TIMEOUT">>, <<"fatal">>}

ToLowerCase(w) ==
    IF w = "TIMEOUT" THEN "timeout" ELSE w

Includes(m, e) == \E i \in 1..Len(m) : ToLowerCase(m[i]) = e

\* What the operation can throw: an Error, or a value that is not an Error.
ThrownValues ==
    [kind : {"Error", "string"}, message : ErrorMessages]

Undefined == [kind |-> "undefined", message |-> <<>>]

\* How one invocation of the operation settles.
OperationOutcomes ==
    {[ok |-> TRUE, error |-> Undefined]}
        \cup {[ok |-> FALSE, error |-> e] : e \in ThrownValues}

AsErrorKeepsValue(v) == v

\* `error instanceof Error ? error : new Error(String(error))`.
AsError(v) ==
    IF v.kind = "Error" THEN v ELSE [kind |-> "Error", message |-> v.message]

RetryableErrors(policy) ==
    IF policy = "default" THEN {"rate_limit", "timeout", "network_error"} ELSE {}

\* The test that decides whether the error is retried.
IsRetryable(variant, policy, err) ==
    IF variant = "common"
    THEN \E e \in RetryableErrors(policy) : Includes(err.message, e)
    ELSE policy = "default"

RECURSIVE Pow2(_)
Pow2(n) == IF n = 0 THEN 1 ELSE 2 * Pow2(n - 1)

\* Math.min(baseDelay * Math.pow(2, attempt), maxDelay).
BackoffDelay(attempt) == Min(DefaultBaseDelay * Pow2(attempt), DefaultMaxDelay)

NoRetry ==
    [pc |-> "idle", variant |-> "common", policy |-> "default", maxRetries |-> 0,
     attempt |-> 0, log |-> <<>>, lastError |-> Undefined, delay |-> 0,
     thrown |-> Undefined]

\* The condition of the for loop.
RetryGuard(attempt, maxRetries) == attempt < maxRetries

LastAttemptTooEarly(attempt, maxRetries) == attempt >= maxRetries - 2

\* `attempt === maxRetries - 1`.
LastAttempt(attempt, maxRetries) == attempt = maxRetries - 1

\* The head of the for loop: the operation is invoked, or the loop is left
\* and `throw lastError!` runs.
RetryLoopHead(r) ==
    IF RetryGuard(r.attempt, r.maxRetries)
    THEN [r EXCEPT !.pc = "call"]
    ELSE [r EXCEPT !.pc = "threw", !.thrown = r.lastError]

\* withRetry is called: the options are destructured and the loop entered.
WithRetry ==
    /\ retry.pc = "idle"
    /\ \E v \in RetryVariants, p \in RetryPolicies,
          n \in {DefaultMaxRetries} \cup 0..MaxRetriesOption :
          retry' = RetryLoopHead([NoRetry EXCEPT !.variant = v, !.policy = p,
                                                 !.maxRetries = n])
    /\ UNCHANGED <<nonUtilVars, sse, behavior, route>>

\* The awaited invocation settles: the value is returned, or the catch
\* block runs up to its throw or its await of the delay.
OperationSettles ==
    /\ retry.pc = "call"
    /\ \E o \in OperationOutcomes :
          LET r == [retry EXCEPT !.log = Append(@, o)]
              err == AsError(o.error)
          IN retry' =
                IF o.ok
                THEN [r EXCEPT !.pc = "returned"]
                ELSE IF \/ ~IsRetryable(r.variant, r.policy, err)
                        \/ LastAttempt(r.attempt, r.maxRetries)
                THEN [r EXCEPT !.pc = "threw", !.lastError = err, !.thrown = err]
                ELSE [r EXCEPT !.pc = "delay", !.lastError = err,
                               !.delay = BackoffDelay(r.attempt)]
    /\ UNCHANGED <<nonUtilVars, sse, behavior, route>>

\* The delay timer fires: attempt++ and the head of the loop.
DelayElapses ==
    /\ retry.pc = "delay"
    /\ retry' = RetryLoopHead([retry EXCEPT !.attempt = @ + 1])
    /\ UNCHANGED <<nonUtilVars, sse, behavior, route>>

NextRetry ==
    \/ WithRetry
    \/ OperationSettles
    \/ DelayElapses

\* ---------------------------------------------------------------------
\* createStreamIterator and the consumers of its events
\* (services/interfaces/ICodingAgent.ts, operations/AgenticProjectBuilder.ts)
\* ---------------------------------------------------------------------

\* The longest body the transport delivers, in pieces of text.
MaxText == 4

\* The body is a text made of these pieces: the line feed, and the texts of
\* frames without their line feed.  A read delivers one or two pieces, so
\* a line can arrive whole, or split from its line feed.  The two content
\* frames carry the texts "a" and "b"; the tool frame carries one call, the
\* empty tool frame an OpenAI-shaped delta whose tool_calls array is empty.
Newline == "\n"
SentinelFrame == "data: [DONE]"
ContentFrame == "data: {content}"
ToolFrame == "data: {tool}"
MoreContentFrame == "data: {more content}"
EmptyToolFrame == "data: {no tools}"
OtherFrame == "data: {other}"
BadFrame == "data: {"
BareSentinel == "[DONE]"

\* The frames whose payload has the shape of a content or tool-call chunk.
EventFrames == {ContentFrame, MoreContentFrame, ToolFrame, EmptyToolFrame}

DataFrames == EventFrames \cup {SentinelFrame, OtherFrame, BadFrame}
Pieces == DataFrames \cup {Newline, BareSentinel}

ReadValues == {<<a>> : a \in Pieces} \cup {<<a, b>> : a, b \in Pieces}

Providers == {"anthropic", "openai", "google", "unknown"}

\* The tool_calls array of the tool frame.
FrameBatch == << [id |-> 1, name |-> "write", arguments |-> "{}"] >>

Null == [type |-> "null", content |-> "", tool_calls |-> <<>>]

ParseStreamChunkAllContent(frame, provider) == ContentChunk("a")

\* parseStreamChunk on the parsed payload of a frame of the provider's shape.
ParseStreamChunk(frame, provider) ==
    IF provider = "unknown" THEN Null
    ELSE IF frame = ContentFrame THEN ContentChunk("a")
    ELSE IF frame = MoreContentFrame THEN ContentChunk("b")
    ELSE IF frame = ToolFrame /\ provider # "google" THEN ToolCallChunk(FrameBatch)
    ELSE IF frame = EmptyToolFrame /\ provider = "openai" THEN ToolCallChunk(<<>>)
    ELSE Null

RECURSIVE Split(_)
\* buffer.split('\n'): the segments between the line feeds.
Split(text) ==
    IF text = <<>>
    THEN << <<>> >>
    ELSE LET rest == Split(Tail(text))
         IN IF Head(text) = Newline
            THEN << <<>> >> \o rest
            ELSE << <<Head(text)>> \o Head(rest) >> \o Tail(rest)

\* `line.trim() === '' || !line.startsWith('data:')`.
SkipLine(line) == line = <<>> \/ line[1] \notin DataFrames

\* `data === '[DONE]'`.
IsSentinel(line) == line = <<SentinelFrame>>

\* JSON.parse(data) throws.
JsonParseThrows(line) == Len(line) > 1 \/ line[1] = BadFrame

RECURSIVE ProcessLines(_, _, _)
\* The for loop over the lines of one read: the events yielded, and
\* whether the generator returned at the sentinel.
ProcessLines(lines, provider, events) ==
    IF lines = <<>>
    THEN [events |-> events, returned |-> FALSE]
    ELSE LET line == Head(lines)
         IN IF SkipLine(line)
            THEN ProcessLines(Tail(lines), provider, events)
            ELSE IF IsSentinel(line)
            THEN [events |-> Append(events, CompleteChunk), returned |-> TRUE]
            ELSE IF JsonParseThrows(line)
            THEN ProcessLines(Tail(lines), provider, events)
            ELSE LET chunk == ParseStreamChunk(line[1], provider)
                 IN ProcessLines(Tail(lines), provider,
                                 IF chunk = Null THEN events ELSE Append(events, chunk))

\* A stream iterator that does not exist yet.
NoStream ==
    [pc |-> "idle", provider |-> "unknown", received |-> <<>>, buffer |-> <<>>,
     events |-> <<>>, closed |-> "open"]

\* createStreamIterator is called on the body of a provider's response.
CreateStreamIterator ==
    /\ sse.pc = "idle"
    /\ \E p \in Providers : sse' = [NoStream EXCEPT !.pc = "reading", !.provider = p]
    /\ UNCHANGED <<nonUtilVars, retry, behavior, route>>

\* A round of the while loop that forgets the text left in buffer.
ReaderReadValueDropsBuffer ==
    /\ sse.pc = "reading"
    /\ \E v \in ReadValues :
          /\ Len(sse.received) + Len(v) <= MaxText
          /\ LET segments == Split(v)
                 lines == SubSeq(segments, 1, Len(segments) - 1)
                 out == ProcessLines(lines, sse.provider, sse.events)
             IN sse' = [sse EXCEPT !.received = @ \o v,
                                   !.buffer = segments[Len(segments)],
                                   !.events = out.events,
                                   !.pc = IF out.returned THEN "ended" ELSE "reading",
                                   !.closed = IF out.returned THEN "returned" ELSE @]
    /\ UNCHANGED <<nonUtilVars, retry, behavior, route>>

\* reader.read() resolves with a value: one round of the while loop.
ReaderReadValue ==
    /\ sse.pc = "reading"
    /\ \E v \in ReadValues :
          /\ Len(sse.received) + Len(v) <= MaxText
          /\ LET segments == Split(sse.buffer \o v)
                 lines == SubSeq(segments, 1, Len(segments) - 1)
                 out == ProcessLines(lines, sse.provider, sse.events)
             IN sse' = [sse EXCEPT !.received = @ \o v,
                                   !.buffer = segments[Len(segments)],
                                   !.events = out.events,
                                   !.pc = IF out.returned THEN "ended" ELSE "reading",
                                   !.closed = IF out.returned THEN "returned" ELSE @]
    /\ UNCHANGED <<nonUtilVars, retry, behavior, route>>

\* reader.read() resolves with done: the while loop is left.
ReaderReadDone ==
    /\ sse.pc = "reading"
    /\ sse' = [sse EXCEPT !.pc = "ended", !.closed = "done"]
    /\ UNCHANGED <<nonUtilVars, retry, behavior, route>>

\* reader.read() rejects: the generator throws to its consumer.
ReaderReadFails ==
    /\ sse.pc = "reading"
    /\ sse' = [sse EXCEPT !.pc = "threw", !.closed = "error"]
    /\ UNCHANGED <<nonUtilVars, retry, behavior, route>>

NextStream ==
    \/ CreateStreamIterator
    \/ ReaderReadValue
    \/ ReaderReadDone
    \/ ReaderReadFails

RECURSIVE InferCollect(_, _)
\* The for-await loop of infer(): content and the last tool_calls seen.
InferCollect(events, acc) ==
    IF events = <<>>
    THEN acc
    ELSE LET chunk == Head(events)
         IN InferCollect(Tail(events),
               IF chunk.type = "content"
               THEN [acc EXCEPT !.content = Append(@, chunk.content)]
               ELSE IF chunk.type = "tool_call"
               THEN [acc EXCEPT !.toolCalls = chunk.tool_calls, !.seen = TRUE]
               ELSE acc)

\* An infer() that tests the length of the batch, as streamInference does.
InferFromBatchLength(events) ==
    LET acc == InferCollect(events, [content |-> <<>>, toolCalls |-> <<>>, seen |-> FALSE])
    IN IF Len(acc.toolCalls) > 0
       THEN [type |-> "tool_calls", content |-> acc.content, tool_calls |-> acc.toolCalls]
       ELSE [type |-> "text", content |-> acc.content, tool_calls |-> <<>>]

\* infer({stream: true}) on a stream that ended.
Infer(events) ==
    LET acc == InferCollect(events, [content |-> <<>>, toolCalls |-> <<>>, seen |-> FALSE])
    IN IF acc.seen
       THEN [type |-> "tool_calls", content |-> acc.content, tool_calls |-> acc.toolCalls]
       ELSE [type |-> "text", content |-> acc.content, tool_calls |-> <<>>]

RECURSIVE Drain(_, _)
\* The for-await loop of streamInference over the events of a stream.
Drain(events, acc) ==
    IF events = <<>> \/ acc.failed
    THEN acc
    ELSE Drain(Tail(events), ReadChunk(acc, Head(events)))

\* streamInference on a stream that ended or threw.
StreamInferenceOf(s) ==
    LET acc == Drain(s.events, NoChunksRead)
    IN StreamInference(IF s.pc = "threw" THEN [acc EXCEPT !.failed = TRUE] ELSE acc)

\* ---------------------------------------------------------------------
\* BaseCodingBehavior: handleUserInput / triggerBuild (behaviors/base.ts)
\* ---------------------------------------------------------------------

\* handleUserInput and triggerBuild calls on the behaviour.
MaxTriggers == 3

\* The behaviour after construction.  generationPromise is "null",
\* "pending" (the build it chains on is in flight), or "resolved" or
\* "rejected" (the build has settled, the then/catch/finally callbacks have
\* not run yet); errors counts the ERROR broadcasts of the catch callback,
\* failures the build() promises that rejected, unhandled the rejections
\* that reached the end of the chain with no handler.
NewBehavior ==
    [generationPromise |-> "null", building |-> 0, pendingUserInputs |-> 0,
     calls |-> 0, skipped |-> 0, errors |-> 0, failures |-> 0, unhandled |-> 0]

\* isCodeGenerating.
IsCodeGenerating(b) == b.generationPromise # "null"

TriggerBuildUnguarded(b) ==
    [b EXCEPT !.building = @ + 1, !.generationPromise = "pending"]

\* triggerBuild: returns when a build is in progress, else calls build()
\* and stores the promise chained on it.
TriggerBuild(b) ==
    IF b.generationPromise # "null"
    THEN [b EXCEPT !.skipped = @ + 1]
    ELSE [b EXCEPT !.building = @ + 1, !.generationPromise = "pending"]

\* handleUserInput: the message is queued, and the build triggered unless
\* code is being generated.
HandleUserInput ==
    /\ behavior.calls < MaxTriggers
    /\ LET b == [behavior EXCEPT !.pendingUserInputs = @ + 1, !.calls = @ + 1]
       IN behavior' = IF ~IsCodeGenerating(b)
                      THEN TriggerBuild(b)
                      ELSE [b EXCEPT !.skipped = @ + 1]
    /\ UNCHANGED <<nonUtilVars, retry, sse, route>>

\* triggerBuild called by the subclass.
TriggerBuildCall ==
    /\ behavior.calls < MaxTriggers
    /\ behavior' = TriggerBuild([behavior EXCEPT !.calls = @ + 1])
    /\ UNCHANGED <<nonUtilVars, retry, sse, route>>

\* fetchPendingUserRequests, called by the build in flight: the queue is
\* returned and cleared.
FetchPendingUserRequests ==
    /\ behavior.building > 0
    /\ behavior.pendingUserInputs > 0
    /\ behavior' = [behavior EXCEPT !.pendingUserInputs = 0]
    /\ UNCHANGED <<nonUtilVars, retry, sse, route>>

\* A build() promise resolves or rejects.
BuildSettles ==
    /\ behavior.building > 0
    /\ \E how \in {"resolved", "rejected"} :
          behavior' = [behavior EXCEPT !.building = @ - 1,
                                       !.failures = IF how = "rejected" THEN @ + 1 ELSE @,
                                       !.generationPromise = how]
    /\ UNCHANGED <<nonUtilVars, retry, sse, route>>

\* A chain of then and finally only: the rejection passes through finally.
BuildFinallyWithoutCatch ==
    /\ behavior.generationPromise \in {"resolved", "rejected"}
    /\ behavior' = [behavior EXCEPT
          !.unhandled = IF behavior.generationPromise = "rejected" THEN @ + 1 ELSE @,
          !.generationPromise = "null"]
    /\ UNCHANGED <<nonUtilVars, retry, sse, route>>

\* The then or catch callback, then the finally callback of the chain.  The
\* catch callback returns, so the promise finally passes on is fulfilled.
BuildFinally ==
    /\ behavior.generationPromise \in {"resolved", "rejected"}
    /\ behavior' = [behavior EXCEPT
          !.errors = IF behavior.generationPromise = "rejected" THEN @ + 1 ELSE @,
          !.generationPromise = "null"]
    /\ UNCHANGED <<nonUtilVars, retry, sse, route>>

NextBuild ==
    \/ HandleUserInput
    \/ TriggerBuildCall
    \/ FetchPendingUserRequests
    \/ BuildSettles
    \/ BuildFinally

\* ---------------------------------------------------------------------
\* The /api/agent route: blueprint, approval, build (server/ollama.js)
\* ---------------------------------------------------------------------

\* approve and reject requests for the session.
MaxRequests == 2

\* The route before the request.  entry is the status of the session's
\* entry in the sessions map, "none" when the map has no entry; the three
\* timers are TRUE while they are set; approved is the handler's local;
\* listening says the 'close' handler is registered, closed that the client
\* has disconnected, ended that res.end() was called.  The other fields
\* record what has happened: runBuild calls, approve requests that set the
\* status, a reject request that set the status before any build, a client
\* that disconnected before any approval, the timeout error and whether it
\* was sent after a build had started.
NoRoute ==
    [pc |-> "idle", entry |-> "none",
     checkApproval |-> FALSE, keepAlive |-> FALSE, timeout |-> FALSE,
     approved |-> FALSE, listening |-> FALSE, closed |-> FALSE, ended |-> FALSE,
     builds |-> 0, requests |-> 0, approvals |-> 0,
     refused |-> FALSE, lostClient |-> FALSE, timedOut |-> FALSE,
     lateTimeout |-> FALSE]

\* cleanup() and clearInterval(checkApproval).
ClearTimers(r) ==
    [r EXCEPT !.checkApproval = FALSE, !.keepAlive = FALSE, !.timeout = FALSE]

\* POST /api/agent up to `await getBestCodingModel()`; an empty query is
\* answered with 400.
PostAgent ==
    /\ route.pc = "idle"
    /\ \E valid \in BOOLEAN :
          route' = IF valid
                   THEN [route EXCEPT !.pc = "blueprint"]
                   ELSE [route EXCEPT !.pc = "finished", !.ended = TRUE]
    /\ UNCHANGED <<nonUtilVars, retry, sse, behavior>>

\* The model lookup and generate() settle.  On success the entry is stored,
\* the timers are set and the 'close' handler is registered; on failure
\* the error is sent and the response ended.
BlueprintSettles ==
    /\ route.pc = "blueprint"
    /\ \E ok \in BOOLEAN :
          route' = IF ok
                   THEN [route EXCEPT !.pc = "waiting",
                                      !.entry = "awaiting_approval",
                                      !.checkApproval = TRUE, !.keepAlive = TRUE,
                                      !.timeout = TRUE, !.listening = TRUE]
                   ELSE [route EXCEPT !.pc = "finished", !.ended = TRUE]
    /\ UNCHANGED <<nonUtilVars, retry, sse, behavior>>

\* The client disconnects.  The 'close' handler runs if it was registered
\* before: the timers are cleared and the entry is deleted unless approved.
ClientCloses ==
    /\ route.pc # "idle"
    /\ ~route.closed
    /\ LET r == [route EXCEPT !.closed = TRUE,
                              !.lostClient = @ \/ route.approvals = 0]
       IN route' = IF route.listening
                   THEN [ClearTimers(r) EXCEPT
                            !.entry = IF route.approved THEN @ ELSE "none"]
                   ELSE r
    /\ UNCHANGED <<nonUtilVars, retry, sse, behavior>>

\* POST /:sessionId/approve.
Approve ==
    /\ route.pc # "idle"
    /\ route.requests < MaxRequests
    /\ route' = IF route.entry = "none"
                THEN [route EXCEPT !.requests = @ + 1]
                ELSE [route EXCEPT !.requests = @ + 1, !.approvals = @ + 1,
                                   !.entry = "approved"]
    /\ UNCHANGED <<nonUtilVars, retry, sse, behavior>>

\* POST /:sessionId/reject.
Reject ==
    /\ route.pc # "idle"
    /\ route.requests < MaxRequests
    /\ route' = IF route.entry = "none"
                THEN [route EXCEPT !.requests = @ + 1]
                ELSE [route EXCEPT !.requests = @ + 1,
                                   !.refused = @ \/ route.builds = 0,
                                   !.entry = "rejected"]
    /\ UNCHANGED <<nonUtilVars, retry, sse, behavior>>

\* The setTimeout callback: cleanup(), the 'timed out' error, the entry is
\* deleted, the response ended.  checkApproval is not cleared here.
TimeoutFires ==
    /\ route.timeout
    /\ route' = [route EXCEPT !.keepAlive = FALSE, !.timeout = FALSE,
                              !.timedOut = TRUE,
                              !.lateTimeout = @ \/ route.builds > 0,
                              !.entry = "none", !.ended = TRUE,
                              !.pc = "finished"]
    /\ UNCHANGED <<nonUtilVars, retry, sse, behavior>>

\* The checkApproval callback, up to `await runBuild(...)`.
CheckApprovalTick ==
    /\ route.checkApproval
    /\ route' =
          IF route.entry = "none"
          THEN [ClearTimers(route) EXCEPT !.ended = TRUE, !.pc = "finished"]
          ELSE IF route.entry = "approved"
          THEN [ClearTimers(route) EXCEPT !.approved = TRUE, !.builds = @ + 1,
                                          !.pc = "building"]
          ELSE IF route.entry = "rejected"
          THEN [ClearTimers(route) EXCEPT !.entry = "none", !.ended = TRUE,
                                          !.pc = "finished"]
          ELSE route
    /\ UNCHANGED <<nonUtilVars, retry, sse, behavior>>

\* runBuild settles.  It returns after the 'complete' event or after a
\* generateStream failure it caught, and the callback deletes the entry and
\* ends the response; or it throws (fs.mkdirSync, fs.writeFileSync, a
\* blueprint without a files array), and the callback's promise rejects
\* with the entry in the map and the response open.
RunBuildSettles ==
    /\ route.pc = "building"
    /\ \E how \in {"complete", "generationFailed", "throws"} :
          route' = IF how = "throws"
                   THEN [route EXCEPT !.pc = "crashed"]
                   ELSE [route EXCEPT !.entry = "none", !.ended = TRUE,
                                      !.pc = "finished"]
    /\ UNCHANGED <<nonUtilVars, retry, sse, behavior>>

NextRoute ==
    \/ PostAgent
    \/ BlueprintSettles
    \/ ClientCloses
    \/ Approve
    \/ Reject
    \/ TimeoutFires
    \/ CheckApprovalTick
    \/ RunBuildSettles

Init ==
    /\ sessions = [r \in Runs |-> Unborn]
    /\ nRuns = 0
    /\ activeSessions = 0
    /\ store = NoContext
    /\ startedCount = 0
    /\ lastStarted = 0
    /\ terminatedCount = 0
    /\ terminateCalls = 0
    /\ nullRecoveries = 0
    /\ messageCount = 0
    /\ msg = NoMessage
    /\ nMessages = 0
    /\ LoopInit
    /\ toolCall = NoToolCall
    /\ retry = NoRetry
    /\ sse = NoStream
    /\ behavior = NewBehavior
    /\ route = NoRoute

\* initializeSession up to `await stateManager.createSession(context)`.
InitializeSession ==
    /\ nRuns = 0
    /\ LET s == [Unborn EXCEPT !.pc = "created", !.status = "initializing",
                               !.phase = AgentPhase[1]]
       IN /\ sessions' = [sessions EXCEPT ![1] = s]
          /\ nRuns' = 1
          /\ store' = UpdateSession(store, s)
    /\ UNCHANGED <<nonCoreVars, nullRecoveries, activeSessions, startedCount, lastStarted, terminatedCount, terminateCalls,
                   messageCount, msg, nMessages>>

\* initializeSession after createSession: the session is registered and
\* processSession runs up to the first await of runPhase(ANALYSIS).
RegisterSession(r) ==
    /\ sessions[r].pc = "created"
    /\ LET s == RunPhaseBegin(sessions[r], 1)
       IN /\ sessions' = [sessions EXCEPT ![r] = s]
          /\ activeSessions' = r
          /\ store' = UpdateSession(store, s)
    /\ UNCHANGED <<nonCoreVars, nullRecoveries, nRuns, startedCount, lastStarted, terminatedCount, terminateCalls,
                   messageCount, msg, nMessages>>

\* runPhase after updateSession: the 'started' event, then the phase body is
\* called.
EmitStarted(r) ==
    /\ sessions[r].pc = "emitStart"
    /\ LET s == sessions[r]
       IN /\ sessions' = [sessions EXCEPT
                 ![r] = [Emit(s, PhaseEvent(s.phase, "started")) EXCEPT !.pc = "body"]]
          /\ startedCount' = startedCount + 1
          /\ lastStarted' = IndexOf(AgentPhase, s.phase)
    /\ UNCHANGED <<nonCoreVars, nullRecoveries, nRuns, activeSessions, store, terminatedCount, terminateCalls,
                   messageCount, msg, nMessages>>

PhaseFailedSwallowed(s) ==
    [Emit(s, PhaseEvent(s.phase, "failed")) EXCEPT !.pc = "advance"]

\* runPhase's catch: the 'failed' event, then the error is re-thrown.
PhaseFailed(s) ==
    [Emit(s, PhaseEvent(s.phase, "failed")) EXCEPT !.thrown = TRUE, !.pc = "catch"]

\* The phase bodies processSession passes to runPhase, from the moment the
\* behaviour's method settles.  review is the ReviewAnalysis it returned:
\* "passed" (no issues), "issues" (issues, low confidence), "autofix".
PhaseBodyReturns(s, review) ==
    IF s.phase = "analysis"
    THEN [Emit(s, PlainEvent("blueprint")) EXCEPT !.pc = "emitEnd"]
    ELSE IF s.phase = "review"
    THEN IF review = "passed"
         THEN [Emit(s, ReviewEvent("passed")) EXCEPT !.pc = "emitEnd"]
         ELSE [Emit(s, ReviewEvent("issues_found")) EXCEPT
                  !.pc = IF review = "autofix" THEN "fixes" ELSE "emitEnd"]
    ELSE [s EXCEPT !.pc = "emitEnd"]

\* The behaviour's method of the current phase settles.
PhaseBody(r) ==
    /\ sessions[r].pc = "body"
    /\ \E ok \in BOOLEAN, review \in {"passed", "issues", "autofix"} :
          sessions' = [sessions EXCEPT ![r] =
              IF ok THEN PhaseBodyReturns(sessions[r], review)
                    ELSE PhaseFailed(sessions[r])]
    /\ UNCHANGED <<nonCoreVars, nullRecoveries, nRuns, activeSessions, store, startedCount, lastStarted,
                   terminatedCount, terminateCalls, messageCount, msg, nMessages>>

\* handlePostReview: behavior.applyFixes settles.
ApplyFixes(r) ==
    /\ sessions[r].pc = "fixes"
    /\ \E ok \in BOOLEAN :
          sessions' = [sessions EXCEPT ![r] =
              IF ok THEN [sessions[r] EXCEPT !.pc = "emitEnd"]
                    ELSE PhaseFailed(sessions[r])]
    /\ UNCHANGED <<nonCoreVars, nullRecoveries, nRuns, activeSessions, store, startedCount, lastStarted,
                   terminatedCount, terminateCalls, messageCount, msg, nMessages>>

\* runPhase after the body returned: the 'completed' event.
EmitCompleted(r) ==
    /\ sessions[r].pc = "emitEnd"
    /\ sessions' = [sessions EXCEPT ![r] =
          [Emit(sessions[r], PhaseEvent(sessions[r].phase, "completed"))
              EXCEPT !.pc = "advance"]]
    /\ UNCHANGED <<nonCoreVars, nullRecoveries, nRuns, activeSessions, store, startedCount, lastStarted,
                   terminatedCount, terminateCalls, messageCount, msg, nMessages>>

\* processSession after runPhase resolved: the next runPhase up to its first
\* await, or "Mark as complete" up to its await.
Advance(r) ==
    /\ sessions[r].pc = "advance"
    /\ LET s == IF sessions[r].cur < Len(ProcessSessionOrder)
                THEN RunPhaseBegin(sessions[r], sessions[r].cur + 1)
                ELSE [sessions[r] EXCEPT !.status = "completed",
                                         !.pc = "notifyComplete"]
       IN /\ sessions' = [sessions EXCEPT ![r] = s]
          /\ store' = UpdateSession(store, s)
    /\ UNCHANGED <<nonCoreVars, nullRecoveries, nRuns, activeSessions, startedCount, lastStarted,
                   terminatedCount, terminateCalls, messageCount, msg, nMessages>>

SessionCompleteSilent(s) ==
    IF s.isTerminated THEN s ELSE [s EXCEPT !.status = "completed"]

\* AgentSession.complete.
SessionComplete(s) ==
    IF s.isTerminated
    THEN s
    ELSE [Emit(s, PlainEvent("complete")) EXCEPT !.status = "completed"]

\* AgentSession.fail.
SessionFail(s) ==
    [Emit(s, PlainEvent("error")) EXCEPT !.status = "failed"]

\* AgentSession.terminate; the 'terminated' event is counted per id.
SessionTerminate(s) ==
    [s EXCEPT !.isTerminated = TRUE]

\* processSession after the last updateSession: session.complete().
NotifyComplete(r) ==
    /\ sessions[r].pc = "notifyComplete"
    /\ sessions' = [sessions EXCEPT ![r] =
          [SessionComplete(sessions[r]) EXCEPT !.pc = "done"]]
    /\ UNCHANGED <<nonCoreVars, nullRecoveries, nRuns, activeSessions, store, startedCount, lastStarted,
                   terminatedCount, terminateCalls, messageCount, msg, nMessages>>

CatchFailureUnpersisted(r) ==
    /\ sessions[r].pc = "catch"
    /\ sessions' = [sessions EXCEPT ![r] =
          [sessions[r] EXCEPT !.status = "failed", !.pc = "notifyFail"]]
    /\ UNCHANGED <<nonCoreVars, nullRecoveries, nRuns, activeSessions, store, startedCount, lastStarted,
                   terminatedCount, terminateCalls, messageCount, msg, nMessages>>

\* processSession's catch: FAILED is set and persisted, the error re-thrown.
CatchFailure(r) ==
    /\ sessions[r].pc = "catch"
    /\ LET s == [sessions[r] EXCEPT !.status = "failed", !.pc = "notifyFail"]
       IN /\ sessions' = [sessions EXCEPT ![r] = s]
          /\ store' = UpdateSession(store, s)
    /\ UNCHANGED <<nonCoreVars, nullRecoveries, nRuns, activeSessions, startedCount, lastStarted,
                   terminatedCount, terminateCalls, messageCount, msg, nMessages>>

\* The .catch of initializeSession / recoverSession: session.fail(error).
NotifyFail(r) ==
    /\ sessions[r].pc = "notifyFail"
    /\ sessions' = [sessions EXCEPT ![r] =
          [SessionFail(sessions[r]) EXCEPT !.pc = "done"]]
    /\ UNCHANGED <<nonCoreVars, nullRecoveries, nRuns, activeSessions, store, startedCount, lastStarted,
                   terminatedCount, terminateCalls, messageCount, msg, nMessages>>

\* AgentSession.stream, called by implementProject's chunk callback.
SessionStream(s) ==
    IF s.isTerminated THEN s ELSE [s EXCEPT !.timers = @ + 1]

StreamChunk(r) ==
    /\ sessions[r].pc = "body"
    /\ sessions[r].phase = "implementation"
    /\ sessions[r].timers < MaxStream
    /\ sessions' = [sessions EXCEPT ![r] = SessionStream(sessions[r])]
    /\ UNCHANGED <<nonCoreVars, nullRecoveries, nRuns, activeSessions, store, startedCount, lastStarted,
                   terminatedCount, terminateCalls, messageCount, msg, nMessages>>

\* The setTimeout callback of AgentSession.stream: the 'stream' event.
StreamTimer(r) ==
    /\ sessions[r].timers > 0
    /\ sessions' = [sessions EXCEPT ![r] =
          [sessions[r] EXCEPT !.timers = @ - 1]]
    /\ UNCHANGED <<nonCoreVars, nullRecoveries, nRuns, activeSessions, store, startedCount, lastStarted,
                   terminatedCount, terminateCalls, messageCount, msg, nMessages>>

\* A caller holds the session id once initializeSession has returned.
IdKnown == nRuns > 0 /\ sessions[1].pc # "created"

\* processSession runs in flight.
InFlight ==
    Cardinality({r \in Runs : sessions[r].pc \notin {"unborn", "idle", "done", "lost"}})

TerminateSessionKeepsLive ==
    /\ IdKnown
    /\ terminateCalls < MaxTerminations
    /\ terminateCalls' = terminateCalls + 1
    /\ LET r == activeSessions
       IN IF r # 0
          THEN /\ sessions' = [sessions EXCEPT ![r] = SessionTerminate(sessions[r])]
               /\ terminatedCount' = terminatedCount + 1
          ELSE UNCHANGED <<sessions, terminatedCount>>
    /\ store' = UpdateSessionStatus(store, "terminated")
    /\ UNCHANGED <<nonCoreVars, nullRecoveries, nRuns, activeSessions, startedCount, lastStarted,
                   messageCount, msg, nMessages>>

\* AgentCore.terminateSession.
TerminateSession ==
    /\ IdKnown
    /\ terminateCalls < MaxTerminations
    /\ terminateCalls' = terminateCalls + 1
    /\ LET r == activeSessions
       IN IF r # 0
          THEN /\ sessions' = [sessions EXCEPT ![r] = SessionTerminate(sessions[r])]
               /\ terminatedCount' = terminatedCount + 1
               /\ activeSessions' = 0
          ELSE UNCHANGED <<sessions, terminatedCount, activeSessions>>
    /\ store' = UpdateSessionStatus(store, "terminated")
    /\ UNCHANGED <<nonCoreVars, nullRecoveries, nRuns, startedCount, lastStarted, messageCount, msg,
                   nMessages>>

\* recoverSession up to `await stateManager.getSession(sessionId)`: the
\* store answers with a copy of the persisted context.
RecoverRead ==
    /\ nRuns <= MaxRecoveries
    /\ InFlight < MaxInFlight
    /\ IdKnown
    /\ store # NoContext
    /\ sessions' = [sessions EXCEPT ![nRuns + 1] =
          [Unborn EXCEPT !.pc = "recovering",
                         !.status = store.status, !.phase = store.phase,
                         !.messages = store.messages]]
    /\ nRuns' = nRuns + 1
    /\ UNCHANGED <<nonCoreVars, nullRecoveries, activeSessions, store, startedCount, lastStarted,
                   terminatedCount, terminateCalls, messageCount, msg, nMessages>>

\* recoverSession for an id the store has no context for: getSession
\* answers null and recoverSession returns null.
RecoverNull ==
    /\ store = NoContext
    /\ nullRecoveries < MaxRecoveries
    /\ nullRecoveries' = nullRecoveries + 1
    /\ UNCHANGED <<nonCoreVars, sessions, nRuns, activeSessions, store, startedCount,
                   lastStarted, terminatedCount, terminateCalls, messageCount, msg,
                   nMessages>>

RecoverRegisterAlways(r) ==
    /\ sessions[r].pc = "recovering"
    /\ activeSessions' = r
    /\ LET s == RunPhaseBegin(sessions[r], 1)
       IN /\ sessions' = [sessions EXCEPT ![r] = s]
          /\ store' = UpdateSession(store, s)
    /\ UNCHANGED <<nonCoreVars, nullRecoveries, nRuns, startedCount, lastStarted,
                   terminatedCount, terminateCalls, messageCount, msg, nMessages>>

\* recoverSession after getSession: the session is registered, and
\* processSession is started if the status read was PROCESSING.
RecoverRegister(r) ==
    /\ sessions[r].pc = "recovering"
    /\ activeSessions' = r
    /\ IF sessions[r].status = "processing"
       THEN LET s == RunPhaseBegin(sessions[r], 1)
            IN /\ sessions' = [sessions EXCEPT ![r] = s]
               /\ store' = UpdateSession(store, s)
       ELSE /\ sessions' = [sessions EXCEPT ![r] = [@ EXCEPT !.pc = "idle"]]
            /\ UNCHANGED store
    /\ UNCHANGED <<nonCoreVars, nullRecoveries, nRuns, startedCount, lastStarted, terminatedCount, terminateCalls,
                   messageCount, msg, nMessages>>

\* An AgentSession object of an AgentCore instance that is gone.
Lost == [Unborn EXCEPT !.pc = "lost"]

\* The worker restarts: a new AgentCore is constructed over the same store
\* and emitter, with an empty live map; the AgentSession objects and the
\* processSession runs of the old instance are gone.
Restart ==
    /\ IdKnown
    /\ \E r \in Runs : sessions[r].pc \notin {"unborn", "lost"}
    /\ sessions' = [r \in Runs |->
          IF sessions[r].pc = "unborn" THEN sessions[r] ELSE Lost]
    /\ activeSessions' = 0
    /\ UNCHANGED <<nonCoreVars, nullRecoveries, nRuns, store, startedCount, lastStarted, terminatedCount, terminateCalls,
                   messageCount, msg, nMessages>>

\* recoverSession called while no processSession run is in flight.
RecoverAfterRestart ==
    /\ InFlight = 0
    /\ RecoverRead

\* handleUserMessage up to `await stateManager.updateSession`.
HandleUserMessage ==
    /\ msg.pc = "idle"
    /\ nMessages < MaxMessages
    /\ IdKnown
    /\ activeSessions # 0
    /\ LET r == activeSessions
           s == [sessions[r] EXCEPT !.messages = @ + 1]
       IN /\ sessions' = [sessions EXCEPT ![r] = s]
          /\ store' = UpdateSession(store, s)
          /\ msg' = [pc |-> "emit", run |-> r, phase |-> s.phase]
    /\ nMessages' = nMessages + 1
    /\ UNCHANGED <<nonCoreVars, nullRecoveries, nRuns, activeSessions, startedCount, lastStarted,
                   terminatedCount, terminateCalls, messageCount>>

\* handleUserMessage: the 'message' event.
MessageEmit ==
    /\ msg.pc = "emit"
    /\ messageCount' = messageCount + 1
    /\ msg' = [msg EXCEPT !.pc = "refine"]
    /\ UNCHANGED <<nonCoreVars, nullRecoveries, sessions, nRuns, activeSessions, store, startedCount,
                   lastStarted, terminatedCount, terminateCalls, nMessages>>

\* handleUserMessage: the refinement is forwarded in the IMPLEMENTATION phase.
MessageRefine ==
    /\ msg.pc = "refine"
    /\ sessions' = [sessions EXCEPT ![msg.run] =
          IF sessions[msg.run].phase = "implementation"
          THEN [@ EXCEPT !.refined = @ + 1]
          ELSE @]
    /\ msg' = NoMessage
    /\ UNCHANGED <<nonCoreVars, nullRecoveries, nRuns, activeSessions, store, startedCount, lastStarted,
                   terminatedCount, terminateCalls, messageCount, nMessages>>

PhaseWeights == <<10, 20, 50, 10, 10>>

ProgressCap == 99

\* AgentSession.calculateProgress, in hundredths.
CalculateProgress(s) ==
    Min(ProgressCap, SumTo(PhaseWeights, IndexOf(AgentPhase, s.phase) - 1))

\* AgentSession.getStatus.
GetStatus(s) ==
    [status |-> s.status, phase |-> s.phase,
     progress |-> CalculateProgress(s), isTerminated |-> s.isTerminated]

\* ------------------------------------------------------------------------
\* AgentCore.executeToolCall
\* ------------------------------------------------------------------------
\* executeToolCall up to `await import('../tools/toolkit')`; it throws when
\* the session is not in the live map.
ExecuteToolCall(name) ==
    /\ toolCall.pc = "idle"
    /\ IdKnown
    /\ toolCall' =
          IF activeSessions = 0
          THEN [NoToolCall EXCEPT !.pc = "rejected", !.name = name,
                                  !.caught = "Session not found"]
          ELSE [NoToolCall EXCEPT !.pc = "import", !.name = name]
    /\ UNCHANGED nonToolVars

\* The toolkit lookup: an unknown tool throws into the catch block, which
\* calls logToolExecution; a known tool is executed under the timeout race.
ToolLookup ==
    /\ toolCall.pc = "import"
    /\ toolCall' =
          IF toolCall.name \notin AvailableTools
          THEN [toolCall EXCEPT !.pc = "logFailure", !.caught = "Unknown tool"]
          ELSE [toolCall EXCEPT !.pc = "race"]
    /\ UNCHANGED nonToolVars

\* Promise.race settles: the tool returns, the tool throws, or the
\* TOOL_TIMEOUT_MS timer rejects first.
ToolRace ==
    /\ toolCall.pc = "race"
    /\ toolCall' =
          IF ToolBehaviour[toolCall.name] = "returns"
          THEN [toolCall EXCEPT !.pc = "logSuccess"]
          ELSE IF ToolBehaviour[toolCall.name] = "throws"
          THEN [toolCall EXCEPT !.pc = "logFailure", !.caught = "thrown"]
          ELSE [toolCall EXCEPT !.pc = "logFailure", !.caught = "Tool timeout"]
    /\ UNCHANGED nonToolVars

\* analysisManager.logToolExecution of the try block settles.
LogSuccessSettles ==
    /\ toolCall.pc = "logSuccess"
    /\ \E ok \in BOOLEAN :
          toolCall' =
             IF ok
             THEN [toolCall EXCEPT !.pc = "returned", !.result = ToolSuccess]
             ELSE [toolCall EXCEPT !.pc = "logFailure", !.caught = "analytics"]
    /\ UNCHANGED nonToolVars

\* analysisManager.logToolExecution of the catch block settles.
LogFailureSettles ==
    /\ toolCall.pc = "logFailure"
    /\ \E ok \in BOOLEAN :
          toolCall' =
             IF ok
             THEN [toolCall EXCEPT !.pc = "returned",
                                   !.result = ToolFailure(toolCall.caught)]
             ELSE [toolCall EXCEPT !.pc = "rejected", !.caught = "analytics"]
    /\ UNCHANGED nonToolVars

\* processSession, runPhase and the session's notifications.
ProcessSession ==
    \/ \E r \in Runs : EmitStarted(r)
    \/ \E r \in Runs : PhaseBody(r)
    \/ \E r \in Runs : ApplyFixes(r)
    \/ \E r \in Runs : EmitCompleted(r)
    \/ \E r \in Runs : Advance(r)
    \/ \E r \in Runs : NotifyComplete(r)
    \/ \E r \in Runs : CatchFailure(r)
    \/ \E r \in Runs : NotifyFail(r)

\* The orchestrator under initializeSession, terminateSession and
\* recoverSession.
Next ==
    \/ InitializeSession
    \/ \E r \in Runs : RegisterSession(r)
    \/ ProcessSession
    \/ TerminateSession
    \/ RecoverNull
    \/ RecoverRead
    \/ \E r \in Runs : RecoverRegister(r)

Spec == Init /\ [][Next]_vars

\* The orchestrator across restarts of the worker: recoverSession is called
\* for a session whose earlier runs have ended or were lost in a restart.
NextRestart ==
    \/ InitializeSession
    \/ \E r \in Runs : RegisterSession(r)
    \/ ProcessSession
    \/ TerminateSession
    \/ Restart
    \/ RecoverNull
    \/ RecoverAfterRestart
    \/ \E r \in Runs : RecoverRegister(r)

SpecRestart == Init /\ [][NextRestart]_vars

\* The orchestrator under initializeSession, terminateSession and
\* handleUserMessage, with a behaviour that streams chunks.
NextClient ==
    \/ InitializeSession
    \/ \E r \in Runs : RegisterSession(r)
    \/ ProcessSession
    \/ TerminateSession
    \/ \E r \in Runs : StreamChunk(r)
    \/ \E r \in Runs : StreamTimer(r)
    \/ HandleUserMessage
    \/ MessageEmit
    \/ MessageRefine

SpecClient == Init /\ [][NextClient]_vars

\* One tool-calling operation.
SpecLoop == Init /\ [][NextLoop]_vars

\* The tool-calling operation on an event loop that runs every step that
\* is ready: a promise that has settled resumes its awaiter.
SpecLoopFair == SpecLoop /\ WF_vars(NextLoop)

\* One executeToolCall call on a session that may be running or terminated.
NextTool ==
    \/ InitializeSession
    \/ \E r \in Runs : RegisterSession(r)
    \/ ProcessSession
    \/ TerminateSession
    \/ \E name \in ToolNames : ExecuteToolCall(name)
    \/ ToolLookup
    \/ ToolRace
    \/ LogSuccessSettles
    \/ LogFailureSettles

SpecTool == Init /\ [][NextTool]_vars

\* One withRetry call.
SpecRetry == Init /\ [][NextRetry]_vars

SpecStream == Init /\ [][NextStream]_vars

\* One behaviour under user inputs and build triggers.
SpecBuild == Init /\ [][NextBuild]_vars

\* The behaviour on an event loop that runs the callbacks of a settled
\* promise.
SpecBuildFair == SpecBuild /\ WF_vars(BuildFinally)

\* One /api/agent request with approve and reject requests for its session.
SpecRoute == Init /\ [][NextRoute]_vars

\* The route on an event loop whose timers fire, with a build that settles.
SpecRouteFair ==
    SpecRoute /\ WF_vars(TimeoutFires) /\ WF_vars(CheckApprovalTick)
              /\ WF_vars(RunBuildSettles)

\* ------------------------------------------------------------------------
\* Observations used by the properties
\* ------------------------------------------------------------------------
IsStarted(e) == e.type = "phase" /\ e.status = "started"
IsPhaseEvent(e) == e.type = "phase"
IsComplete(e) == e.type = "complete"
HasToolCalls(m) == m.role = "assistant"

\* The phases of the 'started' events of an event log.
StartedPhases(ev) ==
    LET sel == SelectSeq(ev, IsStarted)
    IN [i \in 1..Len(sel) |-> sel[i].phase]

\* The phase events of a run in which no phase failed.
AllPhasesEvents ==
    [i \in 1..(2 * Len(AgentPhase)) |->
        PhaseEvent(AgentPhase[(i + 1) \div 2],
                   IF i % 2 = 1 THEN "started" ELSE "completed")]

\* AgentCore.getSessionStatus for a session of the live map.
GetSessionStatus == GetStatus(sessions[activeSessions])

\* Every assistant message is followed by exactly one tool message per tool
\* call it carries, in call order and with the call's id.
PairedHistory(m) ==
    \A i \in 1..Len(m) :
        m[i].role = "assistant" =>
            LET n == Len(m[i].tool_calls)
            IN /\ i + n <= Len(m)
               /\ \A j \in 1..n : /\ m[i + j].role = "tool"
                                  /\ m[i + j].tool_call_id = m[i].tool_calls[j].id
               /\ i + n + 1 <= Len(m) => m[i + n + 1].role # "tool"

\* ------------------------------------------------------------------------
\* Properties
\* ------------------------------------------------------------------------

\* C1 (as stated): for the session id, the k-th 'phase started' event is the
\* one of the k-th phase: the started events are ANALYSIS, SETUP,
\* IMPLEMENTATION, REVIEW, DEPLOYMENT in that order, none skipped or repeated.
C1_StartedOncePerSession ==
    /\ startedCount <= Len(AgentPhase)
    /\ lastStarted = startedCount

\* C1 (amended): the 'phase started' events emitted by one processSession run
\* (that of initializeSession, and each one started by recoverSession) are a
\* prefix of ANALYSIS, SETUP, IMPLEMENTATION, REVIEW, DEPLOYMENT.
C1_StartedInOrderPerRun ==
    \A r \in Runs : IsPrefix(StartedPhases(sessions[r].events), AgentPhase)

\* A recovered run has started all five phases, after an earlier run of the
\* session id had started phases too.
C1_Witness ==
    /\ nRuns > 1
    /\ StartedPhases(sessions[2].events) = AgentPhase
    /\ startedCount > Len(AgentPhase)

\* C2: the history always holds, after each assistant message, one tool
\* message per tool call in call order with the call's id, and while an
\* inference call is in flight the batches of all earlier calls are in it.
C2_ToolResultsPaired ==
    /\ PairedHistory(currentMessages)
    /\ lpc \in {"infer", "reading", "classify"} =>
          Len(SelectSeq(currentMessages, HasToolCalls)) = inferCalls - 1

\* The next inference call is in flight after a batch with a missing tool
\* and a throwing tool.
C2_Witness ==
    /\ lpc = "infer"
    /\ \E i \in 1..Len(currentMessages) :
          /\ Len(currentMessages[i].tool_calls) = 2
          /\ currentMessages[i].tool_calls[1].name = "ghost"
          /\ currentMessages[i].tool_calls[2].name = "boom"

\* C3: there are never more than 50 inference calls; an operation all of
\* whose responses carried tool calls, and that did not time out, ends with
\* the iteration-exceeded error after exactly 50 calls and 50 batches.
C3_FiftyIterations ==
    /\ inferCalls <= MAX_TOOL_ITERATIONS
    /\ outcome = "maxIterations" =>
          /\ inferCalls = MAX_TOOL_ITERATIONS
          /\ Len(SelectSeq(currentMessages, HasToolCalls)) = MAX_TOOL_ITERATIONS
    /\ (lpc = "done" /\ outcome # "timeout" /\ iteration = inferCalls) =>
          outcome = "maxIterations"

C3_Witness == outcome = "maxIterations"

\* C4: when streamInference has read a stream with a completion signal and
\* no tool calls, the operation returns the accumulated content at once: no
\* tool runs, no message is added, no further inference call is made.
C4_CompletesInOneCall ==
    [][ (/\ lpc = "classify"
         /\ ~streamState.failed
         /\ streamState.isComplete
         /\ streamState.toolCalls = <<>>)
        => (/\ lpc' = "done"
            /\ outcome' = "returned"
            /\ returned' = streamState.content
            /\ currentMessages' = currentMessages
            /\ execCount' = execCount
            /\ inferCalls' = inferCalls
            /\ iteration = 0 => inferCalls' = 1) ]_vars

C4_Witness ==
    /\ outcome = "returned"
    /\ streamState.isComplete
    /\ returned = <<"a">>
    /\ inferCalls = 1
    /\ execCount = 0
    /\ currentMessages = InputMessages

\* C5: once the in-memory or the persisted status is COMPLETED, FAILED or
\* TERMINATED, it does not change any more.
C5_TerminalStatusIsFinal ==
    [][ /\ store.status \in TerminalStatus => store'.status = store.status
        /\ \A r \in Runs :
              sessions[r].status \in TerminalStatus =>
                 sessions'[r].status = sessions[r].status ]_vars

\* C6: after the 'terminated' event of the session id, no other event is
\* emitted for it: no phase, blueprint, review, complete or error event, no
\* buffered stream chunk, no message event.
C6_SilentAfterTerminated ==
    [][ terminatedCount > 0 =>
          /\ \A r \in Runs : /\ sessions'[r].events = sessions[r].events
                             /\ sessions'[r].timers >= sessions[r].timers
          /\ messageCount' = messageCount ]_vars

\* C7: a terminated session starts no further phase.
C7_NoPhaseAfterStop ==
    [][ \A r \in Runs :
          sessions[r].isTerminated => sessions'[r].cur = sessions[r].cur ]_vars

\* C8: a run in which no phase body threw and whose session was not
\* terminated has emitted 'started' and 'completed' for the five phases in
\* order and then exactly one 'complete' event, its status is COMPLETED, and
\* (for a session that was never recovered) COMPLETED is persisted.
C8_RunsToCompleted ==
    \A r \in Runs :
        (sessions[r].pc = "done" /\ ~sessions[r].thrown /\ ~sessions[r].isTerminated) =>
            LET ev == sessions[r].events
            IN /\ SelectSeq(ev, IsPhaseEvent) = AllPhasesEvents
               /\ Len(SelectSeq(ev, IsComplete)) = 1
               /\ ev[Len(ev)].type = "complete"
               /\ sessions[r].status = "completed"
               /\ nRuns = 1 => store.status = "completed"

C8_Witness ==
    /\ nRuns = 1
    /\ sessions[1].pc = "done"
    /\ ~sessions[1].thrown
    /\ ~sessions[1].isTerminated

\* C9: getSessionStatus of a live session that has completed all five phases
\* returns status COMPLETED and progress 1.0 (100 hundredths).
C9_CompletedProgressIsOne ==
    \A r \in Runs :
        (/\ activeSessions = r
         /\ sessions[r].pc = "done"
         /\ ~sessions[r].thrown
         /\ sessions[r].status = "completed") =>
            /\ GetSessionStatus.status = "completed"
            /\ GetSessionStatus.progress = 100

\* C10: executeToolCall rejects only when the session is not in the live map.
C10_RejectsOnlyUnknownSession ==
    toolCall.pc = "rejected" => toolCall.caught = "Session not found"
\* C11: executeToolCall on a live session with a tool name that is not in
\* the toolkit returns {success: false, error: "Tool not found"}.
C11_UnknownToolIsNotFound ==
    (toolCall.pc = "returned" /\ toolCall.name \notin AvailableTools) =>
        toolCall.result = ToolFailure("Tool not found")

\* C12: executeToolCall on a live session with a tool whose execute does not
\* settle ends by returning the ToolResult {success: false, error: "Tool
\* timeout"}: it does not throw.
C12_TimeoutIsAResult ==
    (/\ toolCall.name \in AvailableTools
     /\ ToolBehaviour[toolCall.name] = "hangs"
     /\ toolCall.pc \in {"returned", "rejected"}
     /\ toolCall.caught # "Session not found") =>
        /\ toolCall.pc = "returned"
        /\ toolCall.result = ToolFailure("Tool timeout")
\* C13: every tool-calling operation eventually ends (with a result or an
\* error), also when a tool's execute never settles.
C13_OperationTerminates == <>(lpc = "done")
\* The result executeToolCalls records for a call of the batch.
ExpectedResult(call) ==
    IF call.name \notin AvailableTools
    THEN ErrorResult("Tool not found")
    ELSE IF ToolBehaviour[call.name] = "throws" \/ onToolComplete = "rejects"
    THEN ErrorResult("thrown")
    ELSE ValueResult(call.name)

IsRunning(rd) == rd.status = "running"
IsAvailable(call) == call.name \in AvailableTools

\* C14: a failing tool call (tool not found, execute throws) is recorded as
\* the error result of that call only: while later calls run the results of
\* the earlier calls are kept, when the batch is done every call has its own
\* result and every available tool was executed, and the loop then goes on
\* to the head of the while loop.
C14_ErrorsStayInTheirCall ==
    /\ [](/\ lpc \in {"exec", "notify"} =>
              /\ Len(results) = toolIdx - 1
              /\ \A i \in 1..Len(results) :
                    results[i] = ExpectedResult(response.toolCalls[i])
          /\ lpc = "append" =>
              /\ Len(results) = Len(response.toolCalls)
              /\ \A i \in 1..Len(results) :
                    results[i] = ExpectedResult(response.toolCalls[i])
              /\ Len(SelectSeq(renders, IsRunning))
                    = Len(SelectSeq(response.toolCalls, IsAvailable)))
    /\ [][(lpc = "append" /\ lpc' # "append") =>
              (lpc' = "top" /\ iteration' = iteration + 1)]_vars

\* A batch whose first call threw and whose second call returned is done.
C14_Witness ==
    /\ lpc = "append"
    /\ Len(response.toolCalls) = 2
    /\ response.toolCalls[1].name = "boom"
    /\ response.toolCalls[2].name = "write"
    /\ results = <<ErrorResult("thrown"), ValueResult("write")>>
\* The positions of the 'running' renders of the batch.
RunningAt == {k \in 1..Len(renders) : renders[k].status = "running"}

\* C15: the tool calls of a batch are executed one at a time in request
\* order: a tool is started only after every tool started before it has
\* settled, and the tools are started in the order of their calls.
C15_OneToolAtATime ==
    /\ \A i, j \in RunningAt :
          i < j => \E k \in (i + 1)..(j - 1) :
                      /\ renders[k].name = renders[i].name
                      /\ renders[k].status \in {"success", "error"}
    /\ lpc \in {"exec", "notify", "append"} =>
          LET started == SelectSeq(renders, IsRunning)
              asked == SelectSeq(response.toolCalls, IsAvailable)
          IN /\ Len(started) <= Len(asked)
             /\ \A i \in 1..Len(started) : started[i].name = asked[i].name
    /\ lpc = "exec" =>
          /\ renders[Len(renders)] = Render(response.toolCalls[toolIdx].name, "running")
          /\ \A i \in 1..(toolIdx - 1) :
                response.toolCalls[i].name \in AvailableTools =>
                   \E k \in 1..Len(renders) :
                      /\ renders[k].name = response.toolCalls[i].name
                      /\ renders[k].status \in {"success", "error"}

\* The second tool of a batch is running, after the first one settled.
C15_Witness ==
    /\ lpc = "exec"
    /\ toolIdx = 2
    /\ Len(SelectSeq(renders, IsRunning)) = 2
\* The k-th invocation of the operation failed with an error withRetry
\* retries.
FailedRetryably(k) ==
    /\ ~retry.log[k].ok
    /\ IsRetryable(retry.variant, retry.policy, AsError(retry.log[k].error))

\* C16: with the default of 3 attempts, after two invocations that failed
\* with a retryable error the operation is invoked a third time, a third
\* invocation that succeeds makes withRetry return, and the operation is
\* never invoked a fourth time.
C16_ThirdAttemptSucceeds ==
    retry.maxRetries = DefaultMaxRetries =>
        /\ Len(retry.log) <= 3
        /\ (Len(retry.log) = 2 /\ FailedRetryably(1) /\ FailedRetryably(2)) =>
              retry.pc \in {"delay", "call"}
        /\ (Len(retry.log) = 3 /\ retry.log[3].ok) =>
              /\ retry.pc = "returned"
              /\ FailedRetryably(1) /\ FailedRetryably(2)

C16_Witness ==
    /\ retry.maxRetries = DefaultMaxRetries
    /\ retry.pc = "returned"
    /\ Len(retry.log) = 3

\* How often withRetry invokes the operation before it fails: once when the
\* first error is not retryable, maxRetries times when every invocation
\* fails with a retryable error, never more than maxRetries times.
RetryCounts ==
    /\ Len(retry.log) <= retry.maxRetries
    /\ (Len(retry.log) >= 1 /\ ~FailedRetryably(1) /\ ~retry.log[1].ok) =>
          (retry.pc = "threw" /\ Len(retry.log) = 1)
    /\ (retry.pc = "threw" /\ \A k \in 1..Len(retry.log) : FailedRetryably(k)) =>
          Len(retry.log) = retry.maxRetries

\* C17 (as stated): when withRetry fails it rejects with the value the last
\* invocation rejected with, unchanged; the operation was invoked once on a
\* non-retryable error and maxRetries times when all attempts fail.
C17_LastErrorUnchanged ==
    /\ RetryCounts
    /\ (retry.pc = "threw" /\ Len(retry.log) >= 1) =>
          retry.thrown = retry.log[Len(retry.log)].error

\* C17 (amended): when withRetry fails after at least one invocation it
\* rejects with the last invocation's error if that is an Error, and with
\* new Error(String(value)) if it is not; with maxRetries < 1 it invokes
\* nothing and rejects with undefined.  The counts are as stated.
C17_LastErrorAsError ==
    /\ RetryCounts
    /\ (retry.pc = "threw" /\ Len(retry.log) >= 1) =>
          /\ retry.thrown.kind = "Error"
          /\ retry.thrown.message = retry.log[Len(retry.log)].error.message
          /\ retry.log[Len(retry.log)].error.kind = "Error" =>
                retry.thrown = retry.log[Len(retry.log)].error
    /\ (retry.pc = "threw" /\ Len(retry.log) = 0) =>
          (retry.maxRetries = 0 /\ retry.thrown = Undefined)

\* All three default attempts failed retryably, the last one with a value
\* that is not an Error.
C17_Witness ==
    /\ retry.pc = "threw"
    /\ retry.maxRetries = DefaultMaxRetries
    /\ Len(retry.log) = 3
    /\ \A k \in 1..3 : FailedRetryably(k)
    /\ retry.log[3].error.kind = "string"
\* The text holds the sentinel alone on a line at position i: at the start
\* of the text or after a line feed, and up to the end of the text or a
\* line feed.
SentinelAt(text, i) ==
    /\ text[i] = SentinelFrame
    /\ i = 1 \/ text[i - 1] = Newline
    /\ i = Len(text) \/ text[i + 1] = Newline

\* The sentinel line at position i is ended by its line feed.
SentinelLineAt(text, i) == SentinelAt(text, i) /\ i < Len(text)

NumComplete(events) ==
    Cardinality({k \in 1..Len(events) : events[k].type = "complete"})

\* C18: when the body holds no content frame and no tool-call frame before
\* its sentinel line, the iterator yields the completion event only, infer()
\* returns type 'text' with empty content and no tool calls, and
\* streamInference returns a completion with empty content, which the
\* tool-calling loop returns as its result.
C18_EmptyStreamCompletes ==
    \A i \in 1..Len(sse.received) :
        (/\ SentinelLineAt(sse.received, i)
         /\ \A j \in 1..(i - 1) : sse.received[j] \notin EventFrames) =>
            /\ sse.pc = "ended"
            /\ sse.events = <<CompleteChunk>>
            /\ Infer(sse.events) = [type |-> "text", content |-> <<>>, tool_calls |-> <<>>]
            /\ StreamInferenceOf(sse) =
                  [type |-> "complete", content |-> <<>>, toolCalls |-> <<>>]

\* Frames that are no content, malformed and skipped, then the sentinel.
C18_Witness ==
    /\ sse.pc = "ended"
    /\ sse.received = <<OtherFrame, Newline, SentinelFrame, Newline>>
    /\ sse.events = <<CompleteChunk>>
    /\ StreamInferenceOf(sse).content = <<>>

\* C19: once the iterator of a body that holds the sentinel [DONE] on a
\* line has finished, it has yielded exactly one completion event, and that
\* event is the last one.
C19_SentinelYieldsOneCompletion ==
    (/\ sse.pc = "ended"
     /\ \E i \in 1..Len(sse.received) : SentinelAt(sse.received, i)) =>
        /\ NumComplete(sse.events) = 1
        /\ sse.events[Len(sse.events)].type = "complete"

\* C20: when runInferenceWithTools returns a string, the stream of its last
\* inference yielded a completion event or its content carries the
\* completion signal: a stream that just ended is not a completion.
C20_EarlyEndIsNotCompletion ==
    (lpc = "done" /\ outcome = "returned") =>
        \/ streamState.isComplete
        \/ "signal" \in {streamState.content[i] : i \in 1..Len(streamState.content)}
IsFailedEvent(e) == e.type = "phase" /\ e.status = "failed"
IsCompletedEvent(e) == e.type = "phase" /\ e.status = "completed"
IsErrorEvent(e) == e.type = "error"

\* The positions of the events of ev that satisfy Test.
Positions(ev, Test(_)) == {k \in 1..Len(ev) : Test(ev[k])}

\* C21: in a run in which a phase body threw, no 'started' event follows the
\* 'failed' event of that phase (no later phase, no retry), processSession
\* is in its catch block or past it, FAILED is set and persisted by the step
\* that precedes the re-throw, and the run ends with the 'error' event of
\* session.fail.
C21_PhaseFailureFailsSession ==
    /\ [](\A r \in Runs :
            LET s == sessions[r]
                failed == Positions(s.events, IsFailedEvent)
            IN failed # {} =>
                 /\ Cardinality(failed) = 1
                 /\ \A k \in Positions(s.events, IsStarted) : \A f \in failed : k < f
                 /\ s.pc \in {"catch", "notifyFail", "done"}
                 /\ s.pc \in {"notifyFail", "done"} => s.status = "failed"
                 /\ s.pc = "done" =>
                       /\ Cardinality(Positions(s.events, IsErrorEvent)) = 1
                       /\ s.events[Len(s.events)].type = "error")
    /\ [][\A r \in Runs :
            (sessions[r].pc = "catch" /\ sessions'[r].pc = "notifyFail") =>
                /\ sessions'[r].status = "failed"
                /\ store'.status = "failed"]_vars

\* The IMPLEMENTATION body threw and the run has ended.
C21_Witness ==
    /\ sessions[1].pc = "done"
    /\ sessions[1].thrown
    /\ sessions[1].phase = "implementation"
    /\ sessions[1].status = "failed"
    /\ store.status = "failed"
    /\ sessions[1].events[Len(sessions[1].events)].type = "error"
\* The 'phase' events of run r.
PhaseEventsOf(r) == SelectSeq(sessions[r].events, IsPhaseEvent)

C23_TerminateIsIdempotent ==
    /\ [](terminateCalls >= 1 => (activeSessions = 0 /\ terminatedCount = 1))
    /\ [][terminateCalls' = terminateCalls + 1 =>
            /\ activeSessions' = 0
            /\ store'.status = "terminated"
            /\ terminateCalls >= 1 =>
                  /\ sessions' = sessions
                  /\ terminatedCount' = terminatedCount
                  /\ activeSessions' = activeSessions]_vars

\* terminateSession was called twice.
C23_Witness ==
    /\ terminateCalls = 2
    /\ terminatedCount = 1
    /\ activeSessions = 0
    /\ store.status = "terminated"
\* C24: handleUserMessage appends the message to the history and persists
\* it, emits one 'message' event, and calls handleRefinement exactly when
\* the message arrived while the session was in the IMPLEMENTATION phase.
C24_RefinesOnlyInImplementation ==
    [][ /\ nMessages' = nMessages + 1 =>
              /\ msg'.run = activeSessions
              /\ sessions'[msg'.run].messages = sessions[msg'.run].messages + 1
              /\ store'.messages = sessions'[msg'.run].messages
        /\ (msg.pc = "emit" /\ msg'.pc # "emit") => messageCount' = messageCount + 1
        /\ (msg.pc = "refine" /\ msg'.pc = "idle") =>
              (sessions'[msg.run].refined = sessions[msg.run].refined + 1
                  <=> msg.phase = "implementation") ]_vars
\* C25: recoverSession returns null, creating and registering nothing, only
\* when the store has no context for the id.  Otherwise it puts its
\* AgentSession into the live map, and starts processSession at ANALYSIS
\* exactly when the status it read from the store is PROCESSING; a session
\* recovered with another status emits no event and runs no phase.
C25_RecoverResumesOnlyProcessing ==
    /\ [](\A r \in Runs :
            sessions[r].pc = "idle" =>
               /\ sessions[r].status # "processing"
               /\ sessions[r].events = <<>>
               /\ sessions[r].cur = 0)
    /\ [][ /\ nullRecoveries' = nullRecoveries + 1 =>
                 /\ store = NoContext
                 /\ UNCHANGED <<sessions, nRuns, activeSessions, store>>
           /\ nRuns' = nRuns + 1 /\ nRuns > 0 =>
                 /\ store # NoContext
                 /\ sessions'[nRuns'].status = store.status
           /\ \A r \in Runs :
                 (sessions[r].pc = "recovering" /\ sessions'[r].pc \notin {"recovering", "lost"}) =>
                    /\ activeSessions' = r
                    /\ IF sessions[r].status = "processing"
                       THEN /\ sessions'[r].pc = "emitStart"
                            /\ sessions'[r].phase = "analysis"
                            /\ sessions'[r].cur = 1
                       ELSE /\ sessions'[r].pc = "idle"
                            /\ sessions'[r].status = sessions[r].status
                            /\ store' = store ]_vars

\* A recoverSession call returned null before the session existed; a later
\* call recovered the session as COMPLETED and runs nothing.
C25_Witness ==
    /\ nullRecoveries = 1
    /\ sessions[2].pc = "idle"
    /\ sessions[2].status = "completed"
    /\ activeSessions = 2
\* C26: at most one build() of the behaviour is in flight, and while one is
\* in flight generationPromise is set, so that handleUserInput and
\* triggerBuild start no other; triggerBuild tests and sets
\* generationPromise in one step.
C26_OneBuildInFlight ==
    /\ behavior.building <= 1
    /\ behavior.building = 1 => behavior.generationPromise = "pending"

\* A trigger came while a build was in flight and started nothing.
C26_Witness ==
    /\ behavior.building = 1
    /\ behavior.skipped >= 1
    /\ behavior.pendingUserInputs >= 1
\* C27: a session whose status, in memory or persisted, is COMPLETED, FAILED
\* or TERMINATED is not in the live map, so that getSessionStatus for it is
\* answered by the store.
C27_LiveMapHoldsActiveOnly ==
    activeSessions # 0 =>
        /\ sessions[activeSessions].status \notin TerminalStatus
        /\ store.status \notin TerminalStatus
\* C28: when no processSession run, no recoverSession and no
\* handleUserMessage call of the session is in flight, the status in the
\* store is the context.status of the session's latest AgentSession object.
C28_StatusIsPersisted ==
    (/\ nRuns > 0
     /\ InFlight = 0
     /\ msg.pc = "idle"
     /\ sessions[nRuns].pc \in {"done", "idle"}) =>
        store.status = sessions[nRuns].status
\* C29: an inference call that fails is made again, so that the operation
\* ends with an inference error only when the call of its last iteration
\* has been attempted DefaultMaxRetries times.
C29_InferenceIsRetried ==
    (lpc = "done" /\ outcome = "inferenceError") =>
        inferCalls >= iteration + DefaultMaxRetries
\* The tool.execute calls made for the batches recorded in the history m.
ExecutedCalls(m) ==
    Cardinality({c \in (1..Len(m)) \X (1..MaxBatch) :
        /\ m[c[1]].role = "assistant"
        /\ c[2] <= Len(m[c[1]].tool_calls)
        /\ m[c[1]].tool_calls[c[2]].name \in AvailableTools})

\* C30: when the inference call of an iteration fails (inferStream rejects,
\* the stream throws while it is read, or the arguments of a tool call are
\* not JSON), the operation ends in that iteration with an inference error:
\* the response carries no content and no tool calls of the partial stream,
\* nothing is returned, no further inference call is made and no tool of
\* the failed response is executed.
C30_InferenceErrorAbortsLoop ==
    /\ (lpc = "done" /\ streamState.failed) => outcome = "inferenceError"
    /\ outcome = "inferenceError" =>
          /\ lpc = "done"
          /\ streamState.failed
          /\ response = [type |-> "error", content |-> <<>>, toolCalls |-> <<>>]
          /\ returned = <<>>
          /\ inferCalls = iteration + 1
          /\ execCount = ExecutedCalls(currentMessages)

\* The stream failed after it had delivered content.
C30_Witness ==
    /\ outcome = "inferenceError"
    /\ Len(streamState.content) >= 1
    /\ streamState.n >= 2
FramesReceived(s) ==
    LET segments == Split(s.received)
    IN IF s.closed = "done"
       THEN segments
       ELSE SubSeq(segments, 1, Len(segments) - 1)

\* The lines of a body that a line feed ends.
LinesReceived(s) ==
    LET segments == Split(s.received)
    IN SubSeq(segments, 1, Len(segments) - 1)

\* A frame that stands for an event: the sentinel, or one payload that the
\* provider's mapping turns into an event.
IsRecognizable(frame, provider) ==
    \/ frame = <<SentinelFrame>>
    \/ /\ Len(frame) = 1
       /\ frame[1] \in EventFrames
       /\ ParseStreamChunk(frame[1], provider) # Null

EventOfFrame(frame, provider) ==
    IF frame = <<SentinelFrame>>
    THEN CompleteChunk
    ELSE ParseStreamChunk(frame[1], provider)

\* The frames up to and with the first sentinel frame.
UpToSentinel(frames) ==
    LET at == {i \in 1..Len(frames) : frames[i] = <<SentinelFrame>>}
    IN IF at = {}
       THEN frames
       ELSE SubSeq(frames, 1, CHOOSE i \in at : \A j \in at : i <= j)

\* The events of the recognizable frames, in their order.
RecognizedEvents(frames, provider) ==
    LET Test(frame) == IsRecognizable(frame, provider)
        kept == SelectSeq(UpToSentinel(frames), Test)
    IN [i \in 1..Len(kept) |-> EventOfFrame(kept[i], provider)]

\* C32: a frame that is no data frame, is not valid JSON or maps to no
\* event is skipped and neither ends nor fails the stream: the events
\* yielded are those of the recognizable frames of the body, in their order,
\* the iterator throws only when a read fails, and it returns early only at
\* a sentinel frame.
C32_BadFramesAreSkipped ==
    sse.pc # "idle" =>
        /\ sse.events = RecognizedEvents(FramesReceived(sse), sse.provider)
        /\ sse.pc = "threw" => sse.closed = "error"
        /\ sse.closed = "returned" =>
               \E i \in 1..Len(sse.received) : SentinelLineAt(sse.received, i)

\* C38: the events depend on the text received only, not on the reads that
\* delivered it: they are the events one read of the whole text yields, and
\* the iterator has returned exactly when that one read would have.
C38_ReadsDoNotMatter ==
    sse.pc # "idle" =>
        LET whole == ProcessLines(LinesReceived(sse), sse.provider, <<>>)
        IN /\ sse.events = whole.events
           /\ whole.returned <=> sse.closed = "returned"

\* A content frame and its line feed arrive in two reads, after a line that
\* was delivered whole.
C38_Witness ==
    /\ sse.received = <<OtherFrame, Newline, ContentFrame, Newline>>
    /\ sse.buffer = <<>>
    /\ sse.provider = "openai"
    /\ sse.events = <<ContentChunk("a")>>

IsContentEvent(e) == e.type = "content"
IsToolCallEvent(e) == e.type = "tool_call"

\* C33: infer() on a drained stream returns the texts of all content events
\* in their order; its type is 'tool_calls' exactly when a tool-call event
\* occurred, and it then carries the batch of the last of them, else its
\* type is 'text'.
C33_InferCollapsesEvents ==
    sse.pc = "ended" =>
        LET result == Infer(sse.events)
            texts == SelectSeq(sse.events, IsContentEvent)
            calls == SelectSeq(sse.events, IsToolCallEvent)
        IN /\ result.content = [i \in 1..Len(texts) |-> texts[i].content]
           /\ result.type = "tool_calls" <=> calls # <<>>
           /\ result.type = "text" <=> calls = <<>>
           /\ calls # <<>> => result.tool_calls = calls[Len(calls)].tool_calls

\* Two tool-call events, the last with an empty batch.
C33_Witness ==
    /\ sse.pc = "ended"
    /\ sse.events = <<ToolCallChunk(FrameBatch), ToolCallChunk(<<>>)>>
    /\ Infer(sse.events) = [type |-> "tool_calls", content |-> <<>>, tool_calls |-> <<>>]

IsOutcomeRender(r) == r.status \in {"success", "error"}

\* C34: when executeToolCalls has finished a batch, the renderer has been
\* called with 'running' once for every call of the batch, unavailable tools
\* included, and each 'running' is followed by one 'success' or 'error' of
\* that call before the next 'running': never none, never both.
C34_EveryCallIsRendered ==
    lpc = "append" =>
        /\ Len(renders) = 2 * Len(response.toolCalls)
        /\ \A i \in 1..Len(response.toolCalls) :
              /\ renders[2 * i - 1] = Render(response.toolCalls[i].name, "running")
              /\ renders[2 * i].name = response.toolCalls[i].name
              /\ IsOutcomeRender(renders[2 * i])

\* C35: the message history only grows.  It starts as a copy of the
\* caller's messages, which stay its prefix; a step changes it only when
\* executeToolCalls has returned with a result for every call of the batch,
\* and then by adding, after the messages it had, one assistant message that
\* carries the calls and one tool message per call in call order, as the
\* iteration count goes up by one.
C35_HistoryIsAppendOnly ==
    /\ [](lpc # "start" =>
             SubSeq(currentMessages, 1, Len(InputMessages)) = InputMessages)
    /\ [][(lpc # "start" /\ currentMessages' # currentMessages) =>
             LET calls == response.toolCalls
                 old == Len(currentMessages)
             IN /\ lpc = "append"
                /\ Len(results) = Len(calls)
                /\ iteration' = iteration + 1
                /\ Len(currentMessages') = old + 1 + Len(calls)
                /\ SubSeq(currentMessages', 1, old) = currentMessages
                /\ currentMessages'[old + 1].role = "assistant"
                /\ Len(currentMessages'[old + 1].tool_calls) = Len(calls)
                /\ \A j \in 1..Len(calls) :
                      /\ currentMessages'[old + 1].tool_calls[j].id = calls[j].id
                      /\ currentMessages'[old + 1 + j].role = "tool"
                      /\ currentMessages'[old + 1 + j].tool_call_id = calls[j].id
                      /\ currentMessages'[old + 1 + j].content = JsonStringify(results[j])]_vars
    /\ [][(lpc # "start" /\ iteration' # iteration) =>
             currentMessages' # currentMessages]_vars

\* Two batches of two calls have been added to the two input messages.
C35_Witness ==
    /\ lpc = "top"
    /\ iteration = 2
    /\ Len(currentMessages) = Len(InputMessages) + 6
    /\ SubSeq(currentMessages, 1, Len(InputMessages)) = InputMessages

\* processSession has been called for run r and has not settled.
IsInFlight(r) ==
    sessions[r].pc \notin {"unborn", "created", "recovering", "idle", "done", "lost"}

\* C36: at most one processSession run is in flight for the session id, and
\* the live map holds the Session object of the run in flight as long as that
\* session was not terminated: recoverSession neither starts a second run
\* nor puts another object in its place.
C36_OneRunPerSession ==
    /\ Cardinality({r \in Runs : IsInFlight(r)}) <= 1
    /\ \A r \in Runs :
          (IsInFlight(r) /\ ~sessions[r].isTerminated) => activeSessions = r

\* C37: a build that has settled leads to generationPromise being null
\* again, and a trigger that finds it null starts a new build; every build
\* failure is broadcast as one error event by the catch callback, and no
\* rejection reaches the end of the chain unhandled.
C37_BuildSettlesAndClears ==
    /\ (behavior.generationPromise \in {"resolved", "rejected"})
          ~> (behavior.generationPromise = "null")
    /\ [][(behavior.generationPromise = "null" /\ behavior'.calls = behavior.calls + 1) =>
             /\ behavior'.building = behavior.building + 1
             /\ behavior'.generationPromise = "pending"]_vars
    /\ [](/\ behavior.unhandled = 0
          /\ behavior.errors =
                behavior.failures - (IF behavior.generationPromise = "rejected" THEN 1 ELSE 0))

\* A build failed, the error was broadcast, and a later trigger has started
\* a new build.
C37_Witness ==
    /\ behavior.failures = 1
    /\ behavior.errors = 1
    /\ behavior.building = 1
    /\ behavior.generationPromise = "pending"

\* C39: runBuild is called at most once, and only after an approve request
\* set the status; a session that was rejected, that timed out or whose
\* client disconnected before approval is never built, and the 'timed out'
\* error is never sent once the build has started.
C39_BuildOnlyWhenApproved ==
    /\ route.builds <= 1
    /\ route.builds > 0 => route.approvals > 0
    /\ route.builds > 0 => ~route.refused /\ ~route.lostClient
    /\ route.timedOut => route.builds = 0
    /\ ~route.lateTimeout

\* C40: an entry in the sessions map is eventually removed, with the
\* polling, keep-alive and timeout timers cleared.
C40_EntriesAreRemoved ==
    (route.entry # "none") ~>
        (/\ route.entry = "none"
         /\ ~route.checkApproval
         /\ ~route.keepAlive
         /\ ~route.timeout)

====
